---- MODULE Spec2Model ----
(***************************************************************************)
(* A model of the clip-scene front end: the three status polling loops of  *)
(* ClipSceneAPI (lib/api.ts, two generations of it) and the range editor   *)
(* of components/VideoPlayer.tsx with the clip list of app/page.tsx.       *)
(***************************************************************************)
EXTENDS Integers, Sequences, FiniteSets, TLC

VARIABLES
    server,         \* the remote service: resource -> its current status record
    loops,          \* loop id -> the state of one call of a poll function
    clips,          \* page.tsx: the committed clips, in order
    selectedClipId, \* page.tsx: the clip selected for editing, or NoClip
    now,            \* the clock Date.now() reads
    showVideoPlayer,\* page.tsx: whether the VideoPlayer is mounted
    player,         \* VideoPlayer: whether the YouTube player is ready
    duration,       \* VideoPlayer: the duration the player reported
    isDragging,     \* VideoPlayer: "start", "end" or "none" (null)
    startTime,      \* VideoPlayer: the range's start, in seconds
    endTime,        \* VideoPlayer: the range's end, in seconds
    currentTime,    \* VideoPlayer: the displayed playback position
    lastEvent,      \* the handler that ran last
    isPlaying,      \* VideoPlayer: the isPlaying state
    intervalRef,    \* VideoPlayer: intervalRef.current, NoTimer for null
    timers,         \* the interval timers that exist, each with the endTime
                    \* its callback closed over
    ytState,        \* the YouTube player: "unstarted", "playing", "paused", "ended"
    ytTime,         \* the YouTube player: its position, in seconds
    ytEvents,       \* state changes of the player not yet handled
    youtubeUrl,     \* page.tsx: the text of the URL field
    downloadedVideo,\* page.tsx: the video a download workflow left, or NoVideo
    isDownloading,  \* page.tsx: a download workflow is busy
    isProcessing,   \* page.tsx: a create-clips workflow is busy
    jobId,          \* page.tsx: the id of the last job submitted, or NoJob
    jobStatus,      \* page.tsx: the job snapshot shown, or NoStatus
    videoStatus,    \* page.tsx: the download snapshot shown, or NoStatus
    error,          \* page.tsx: the error message shown, or NoMessage
    flows,          \* the calls of the async handlers that have not returned
    sent,           \* the requests of ClipSceneAPI issued so far
    lastSubmit,     \* the handler a click ran last, and what it alerted
    inSeconds,      \* a number of seconds given to formatSecondsToTime
    timecode,       \* the text formatSecondsToTime made of inSeconds
    outSeconds,     \* what parseTimeToSeconds made of timecode
    stage,          \* "input", "formatted" or "parsed"
    availableFormats,\* the format list the last discovery returned
    selectedQuality,\* the quality chosen for the download
    available,      \* QualitySelector: isAvailable of each quality, as rendered
    best,           \* the last result of getBestAvailableQuality, with its order
    debounceTimers, \* the debounce timers that exist, each with its URL
    unchangedFor,   \* the time the source URL has stayed as it is
    discoveries,    \* the URLs a discovery request was issued for
    catalogEvent,   \* what the format catalog did last
    found           \* the last result of findFormatForQuality

pollVars == <<server, loops>>
playVars == <<isPlaying, intervalRef, timers, ytState, ytTime, ytEvents>>
editorVars == <<clips, selectedClipId, now, showVideoPlayer, player, duration,
                isDragging, startTime, endTime, currentTime, lastEvent,
                playVars>>
workVars == <<youtubeUrl, downloadedVideo, isDownloading, isProcessing, jobId,
              jobStatus, videoStatus, error, flows, sent, lastSubmit>>
timeVars == <<inSeconds, timecode, outSeconds, stage>>
catalogVars == <<availableFormats, selectedQuality, available, best,
                 debounceTimers, unchangedFor, discoveries, catalogEvent,
                 found>>
vars == <<server, loops, clips, selectedClipId, now, showVideoPlayer, player,
          duration, isDragging, startTime, endTime, currentTime, lastEvent,
          isPlaying, intervalRef, timers, ytState, ytTime, ytEvents,
          youtubeUrl, downloadedVideo, isDownloading, isProcessing, jobId,
          jobStatus, videoStatus, error, flows, sent, lastSubmit,
          inSeconds, timecode, outSeconds, stage,
          availableFormats, selectedQuality, available, best, debounceTimers,
          unchangedFor, discoveries, catalogEvent, found>>

----------------------------------------------------------------------------
(* Bounds of the model                                                     *)

MaxLoops == 2
MaxFetch == 2
TotalClips == 1

----------------------------------------------------------------------------
(* The remote service, seen through GET /job/{id} and GET /video/{id}      *)

JobIds == {"J1"}
LoopIds == 1..MaxLoops
NoError == "<absent>"
ServiceErrors == {NoError, "geo-blocked"}
NoDetail == "<no detail>"
Details == {NoDetail, "Job not found"}

\* JobStatus / JobStatusWithProgress, the fields the loops read
JobStatus ==
    [status : {"downloading", "processing", "completed", "error"},
     completed_clips : 0..TotalClips,
     error : ServiceErrors]

\* pollVideoStatus reads /video/{id}, the two job loops read /job/{id}
Endpoint(kind) == IF kind = "video" THEN "video" ELSE "job"

Resources == {"video", "job"} \X JobIds

\* the statuses the service can report for a resource
ServiceStates(endpoint) ==
    {s \in JobStatus :
        /\ (s.status # "error") => (s.error = NoError)
        /\ (s.status = "downloading") => (s.completed_clips = 0)
        /\ (s.status = "completed") =>
              (s.completed_clips = IF endpoint = "video" THEN 0 ELSE TotalClips)
        /\ (endpoint = "video") =>
              (s.completed_clips = 0 /\ s.status # "processing")}

Terminal(s) == s.status \in {"completed", "error"}

PhaseRank(s) ==
    CASE s.status = "downloading" -> 0
      [] s.status = "processing" -> 1
      [] OTHER -> 2

\* the service only moves forward: the phase never goes back, a terminal
\* status is never left and completed_clips never decreases
Advances(s, t) ==
    /\ PhaseRank(s) <= PhaseRank(t)
    /\ s.completed_clips <= t.completed_clips
    /\ Terminal(s) => (t = s)

InitialStatus ==
    [status |-> "downloading", completed_clips |-> 0, error |-> NoError]

----------------------------------------------------------------------------
(* Responses of a status fetch                                             *)

NoResp == [t |-> "none"]
OkResp(s) == [t |-> "ok", body |-> s]
HttpFail(d) == [t |-> "http", detail |-> d]
NetFail == [t |-> "net"]

NetworkErrorMessage == "Failed to fetch"

\* getJobStatus: throw new Error(error.detail || 'Failed to get job status')
getJobStatusError(detail) ==
    IF detail # NoDetail THEN detail ELSE "Failed to get job status"

\* getVideoStatus: throw new Error(error.detail || 'Failed to get video status')
getVideoStatusError(detail) ==
    IF detail # NoDetail THEN detail ELSE "Failed to get video status"

\* pollUnifiedJobStatus: reject(new Error('Failed to get job status'))
unifiedStatusError(detail) == "Failed to get job status"

\* the message of the error a failed fetch makes the loop reject with
FetchErrorMessage(kind, resp) ==
    IF resp.t = "net" THEN NetworkErrorMessage
    ELSE CASE kind = "job" -> getJobStatusError(resp.detail)
           [] kind = "video" -> getVideoStatusError(resp.detail)
           [] OTHER -> unifiedStatusError(resp.detail)

\* reject(new Error(status.error || 'Processing failed' / 'Download failed'))
RemoteErrorMessage(kind, s) ==
    IF s.error # NoError THEN s.error
    ELSE IF kind = "video" THEN "Download failed" ELSE "Processing failed"

----------------------------------------------------------------------------
(* One call of a poll function                                             *)

NoValue == [t |-> "none"]

NotStarted ==
    [kind |-> "none", job |-> "", timer |-> FALSE,
     promise |-> "pending", value |-> NoValue,
     reqs |-> <<>>, trace |-> <<>>]

NewReq == [resp |-> NoResp, done |-> FALSE]

\* fetch(`${API_BASE}/job/${jobId}`): one more request of loop L in flight
Fetch(L) ==
    [L EXCEPT !.reqs = Append(@, NewReq),
              !.trace = Append(@, [ev |-> "fetch",
                                   arg |-> [t |-> "request", n |-> Len(L.reqs) + 1]])]

\* resolve / reject of the promise returned by the poll function: the first
\* call settles it, later calls change nothing
Settle(L, how, val) ==
    IF L.promise = "pending"
    THEN [L EXCEPT !.promise = how, !.value = val]
    ELSE L

Log(L, e) == [L EXCEPT !.trace = Append(@, e)]

CallEv(s) == [ev |-> "onUpdate", arg |-> OkResp(s)]
ResolveEv(s) == [ev |-> "resolve", arg |-> OkResp(s)]
RejectEv(m) == [ev |-> "reject", arg |-> [t |-> "error", message |-> m]]

Resolve(L, s) == Settle(Log(L, ResolveEv(s)), "resolved", OkResp(s))
Reject(L, m) ==
    Settle(Log(L, RejectEv(m)), "rejected", [t |-> "error", message |-> m])

\* the number of status fetches issued so far, by all loops together
RECURSIVE FetchesUpTo(_)
FetchesUpTo(l) ==
    IF l = 0 THEN 0 ELSE Len(loops[l].reqs) + FetchesUpTo(l - 1)

FetchBudget == FetchesUpTo(MaxLoops) < MaxFetch

\* a poll may be started for loop slot l when the slots before it are in use
CanStart(l) ==
    /\ loops[l].kind = "none"
    /\ \A k \in LoopIds : k < l => loops[k].kind # "none"

\* new Promise(...) of pollJobStatus / pollVideoStatus: the executor calls
\* poll() at once, which issues the first fetch
StartChained(kind, j) == Fetch([NotStarted EXCEPT !.kind = kind, !.job = j])

pollJobStatus(l, j) ==
    /\ CanStart(l)
    /\ FetchBudget
    /\ loops' = [loops EXCEPT ![l] = StartChained("job", j)]
    /\ UNCHANGED server
    /\ UNCHANGED editorVars
    /\ UNCHANGED workVars
    /\ UNCHANGED timeVars
    /\ UNCHANGED catalogVars

pollVideoStatus(l, j) ==
    /\ CanStart(l)
    /\ FetchBudget
    /\ loops' = [loops EXCEPT ![l] = StartChained("video", j)]
    /\ UNCHANGED server
    /\ UNCHANGED editorVars
    /\ UNCHANGED workVars
    /\ UNCHANGED timeVars
    /\ UNCHANGED catalogVars

\* pollUnifiedJobStatus: the executor only creates the interval
pollUnifiedJobStatus(l, j) ==
    /\ CanStart(l)
    /\ loops' = [loops EXCEPT ![l] =
          [NotStarted EXCEPT !.kind = "unified", !.job = j, !.timer = TRUE]]
    /\ UNCHANGED server
    /\ UNCHANGED editorVars
    /\ UNCHANGED workVars
    /\ UNCHANGED timeVars
    /\ UNCHANGED catalogVars

\* the setTimeout(poll, intervalMs) of a chained loop fires: poll() fetches
TimeoutFire(l) ==
    /\ loops[l].kind \in {"job", "video"}
    /\ loops[l].timer
    /\ FetchBudget
    /\ loops' = [loops EXCEPT ![l] = Fetch([@ EXCEPT !.timer = FALSE])]
    /\ UNCHANGED server
    /\ UNCHANGED editorVars
    /\ UNCHANGED workVars
    /\ UNCHANGED timeVars
    /\ UNCHANGED catalogVars

\* the setInterval callback of the unified loop runs: it fetches, whatever
\* became of the fetches of earlier ticks
IntervalTick(l) ==
    /\ loops[l].kind = "unified"
    /\ loops[l].timer
    /\ FetchBudget
    /\ loops' = [loops EXCEPT ![l] = Fetch(@)]
    /\ UNCHANGED server
    /\ UNCHANGED editorVars
    /\ UNCHANGED workVars
    /\ UNCHANGED timeVars
    /\ UNCHANGED catalogVars

\* the service answers fetch n of loop l with its status at that moment,
\* having moved forward since it was last observed
ServerRespond(l, n) ==
    /\ loops[l].kind # "none"
    /\ n \in 1..Len(loops[l].reqs)
    /\ loops[l].reqs[n].resp = NoResp
    /\ LET r == <<Endpoint(loops[l].kind), loops[l].job>>
       IN \E s \in ServiceStates(r[1]) :
            /\ Advances(server[r], s)
            /\ server' = [server EXCEPT ![r] = s]
            /\ loops' = [loops EXCEPT ![l].reqs[n].resp = OkResp(s)]
    /\ UNCHANGED editorVars
    /\ UNCHANGED workVars
    /\ UNCHANGED timeVars
    /\ UNCHANGED catalogVars

\* the fetch fails: a non-2xx response or no response at all
ServerFail(l, n) ==
    /\ loops[l].kind # "none"
    /\ n \in 1..Len(loops[l].reqs)
    /\ loops[l].reqs[n].resp = NoResp
    /\ \E f \in {NetFail} \cup {HttpFail(d) : d \in Details} :
            loops' = [loops EXCEPT ![l].reqs[n].resp = f]
    /\ UNCHANGED server
    /\ UNCHANGED editorVars
    /\ UNCHANGED workVars
    /\ UNCHANGED timeVars
    /\ UNCHANGED catalogVars

\* a variant of ChainedContinue that polls again after a failed fetch
ChainedRetry(L, resp) ==
    IF resp.t # "ok"
    THEN [L EXCEPT !.timer = TRUE]
    ELSE LET s == resp.body
             called == Log(L, CallEv(s))
         IN CASE s.status = "completed" -> Resolve(called, s)
              [] s.status = "error" ->
                    Reject(called, RemoteErrorMessage(L.kind, s))
              [] OTHER -> [called EXCEPT !.timer = TRUE]

\* what poll() of pollJobStatus / pollVideoStatus does once its await returns
ChainedContinue(L, resp) ==
    IF resp.t # "ok"
    THEN Reject(L, FetchErrorMessage(L.kind, resp))
    ELSE LET s == resp.body
             called == Log(L, CallEv(s))
         IN CASE s.status = "completed" -> Resolve(called, s)
              [] s.status = "error" ->
                    Reject(called, RemoteErrorMessage(L.kind, s))
              [] OTHER -> [called EXCEPT !.timer = TRUE]

\* what the interval callback of pollUnifiedJobStatus does once its await
\* returns
UnifiedContinue(L, resp) ==
    IF resp.t # "ok"
    THEN Reject([L EXCEPT !.timer = FALSE], FetchErrorMessage(L.kind, resp))
    ELSE LET s == resp.body
             called == Log(L, CallEv(s))
         IN IF s.status = "completed" \/ s.status = "error"
            THEN Resolve([called EXCEPT !.timer = FALSE], s)
            ELSE called

\* the response of fetch n of loop l has arrived and its code has not resumed
CanDeliver(l, n) ==
    /\ loops[l].kind # "none"
    /\ n \in 1..Len(loops[l].reqs)
    /\ loops[l].reqs[n].resp # NoResp
    /\ ~loops[l].reqs[n].done

\* loop l after the code awaiting fetch n has resumed and run
AfterDeliver(l, n) ==
    LET L == [loops[l] EXCEPT !.reqs[n].done = TRUE]
        resp == loops[l].reqs[n].resp
    IN IF L.kind = "unified" THEN UnifiedContinue(L, resp)
       ELSE ChainedContinue(L, resp)

\* the response of fetch n reaches the client and the awaiting code resumes
Deliver(l, n) ==
    /\ CanDeliver(l, n)
    /\ loops' = [loops EXCEPT ![l] = AfterDeliver(l, n)]
    /\ UNCHANGED server
    /\ UNCHANGED editorVars
    /\ UNCHANGED workVars
    /\ UNCHANGED timeVars
    /\ UNCHANGED catalogVars

PollInit ==
    /\ server = [r \in Resources |-> InitialStatus]
    /\ loops = [l \in LoopIds |-> NotStarted]

PollNext ==
    \/ \E l \in LoopIds, j \in JobIds : pollJobStatus(l, j)
    \/ \E l \in LoopIds, j \in JobIds : pollVideoStatus(l, j)
    \/ \E l \in LoopIds, j \in JobIds : pollUnifiedJobStatus(l, j)
    \/ \E l \in LoopIds : TimeoutFire(l)
    \/ \E l \in LoopIds : IntervalTick(l)
    \/ \E l \in LoopIds, n \in 1..MaxFetch : ServerRespond(l, n)
    \/ \E l \in LoopIds, n \in 1..MaxFetch : ServerFail(l, n)
    \/ \E l \in LoopIds, n \in 1..MaxFetch : Deliver(l, n)

----------------------------------------------------------------------------
(* Properties of the polling loops                                         *)

Started(l) == loops[l].kind # "none"

\* the fetches of loop l that have not returned yet
InFlight(l) == {n \in 1..Len(loops[l].reqs) : ~loops[l].reqs[n].done}

IsCall(e) == e.ev = "onUpdate"
IsSettle(e) == e.ev \in {"resolve", "reject"}
IsFetch(e) == e.ev = "fetch"

\* the snapshots handed to the callback of loop l, in the order of the calls
Calls(l) == SelectSeq(loops[l].trace, IsCall)

\* fetch n of loop l has returned a snapshot / has failed
Succeeded(l, n) == loops[l].reqs[n].done /\ loops[l].reqs[n].resp.t = "ok"
Failed(l, n) == loops[l].reqs[n].done /\ loops[l].reqs[n].resp.t \in {"http", "net"}

\* the snapshots of the fetches n..Len of loop l that have returned one, in
\* fetch order
RECURSIVE ReturnedFrom(_, _)
ReturnedFrom(l, n) ==
    IF n > Len(loops[l].reqs) THEN <<>>
    ELSE (IF Succeeded(l, n) THEN <<loops[l].reqs[n].resp>> ELSE <<>>)
            \o ReturnedFrom(l, n + 1)

\* C1: for any job id, at most one polling loop is active at a time: two
\* calls of a poll function for the same job never both have a status fetch
\* for it under way.
C1_OneLoopPerJob ==
    \A l1, l2 \in LoopIds :
        (/\ l1 # l2
         /\ Started(l1) /\ Started(l2)
         /\ loops[l1].job = loops[l2].job
         /\ Endpoint(loops[l1].kind) = Endpoint(loops[l2].kind))
        => ~(InFlight(l1) # {} /\ InFlight(l2) # {})

\* C2: within one polling loop status fetches never overlap: at most one
\* fetch of a loop is in flight, whatever the response latency.
C2_FetchesSequential ==
    \A l \in LoopIds : Cardinality(InFlight(l)) <= 1

\* C3: once a loop is torn down (its promise was resolved or rejected) its
\* callback is never invoked again: no onUpdate follows a settlement.
C3_NoCallbackAfterTeardown ==
    \A l \in LoopIds :
        \A i, k \in 1..Len(loops[l].trace) :
            (i < k /\ IsSettle(loops[l].trace[i])) => ~IsCall(loops[l].trace[k])

\* C4: when a fetched snapshot has status 'error' with message m, the poll
\* promise is rejected with an error whose message is m.
C4_ErrorSnapshotRejects ==
    \A l \in LoopIds :
        \A i \in 1..Len(Calls(l)) :
            LET s == Calls(l)[i].arg.body
            IN (s.status = "error" /\ s.error # NoError)
                => /\ loops[l].promise = "rejected"
                   /\ loops[l].value = [t |-> "error", message |-> s.error]

\* the first k fetches of loop l have all returned, the first k-1 of them a
\* non-terminal snapshot and the k-th a 'completed' one
CompletedAt(l, k) ==
    /\ k \in 1..Len(loops[l].reqs)
    /\ \A i \in 1..k :
          /\ Succeeded(l, i)
          /\ (i < k) => ~Terminal(loops[l].reqs[i].resp.body)
    /\ loops[l].reqs[k].resp.body.status = "completed"

\* the least of a set of places of a trace, 0 when there is none
FirstAt(hits) ==
    IF hits = {} THEN 0 ELSE CHOOSE i \in hits : \A k \in hits : i <= k

IsCompletedCall(e) == IsCall(e) /\ e.arg.body.status = "completed"

\* the places in the trace of loop l of the callback calls with a completed
\* snapshot, and of the resolve / reject calls
CompletedCallPlaces(l) ==
    {i \in 1..Len(loops[l].trace) : IsCompletedCall(loops[l].trace[i])}
SettlePlaces(l) ==
    {i \in 1..Len(loops[l].trace) : IsSettle(loops[l].trace[i])}

\* C5: when the fetches return non-terminal snapshots followed by a
\* 'completed' one, the promise is resolved with that snapshot, the callback
\* was invoked once per returned snapshot in fetch order, and the completed
\* snapshot reached the callback before the promise was resolved.
C5_CompletedResolves ==
    \A l \in LoopIds : \A k \in 1..MaxFetch :
        CompletedAt(l, k) =>
            /\ loops[l].promise = "resolved"
            /\ loops[l].value = loops[l].reqs[k].resp
            /\ [i \in 1..Len(Calls(l)) |-> Calls(l)[i].arg] = ReturnedFrom(l, 1)
            /\ Len(SelectSeq(loops[l].trace, IsSettle)) = 1
            /\ 0 < FirstAt(CompletedCallPlaces(l))
            /\ FirstAt(CompletedCallPlaces(l)) < FirstAt(SettlePlaces(l))

\* C6: when a status fetch of a loop fails, the promise is rejected at that
\* fetch and the loop issues no fetch afterwards.
C6_FailureRejectsWithoutRetry ==
    \A l \in LoopIds :
        /\ \A n \in 1..Len(loops[l].reqs) :
              Failed(l, n) =>
                /\ loops[l].promise = "rejected"
                /\ loops[l].value =
                      [t |-> "error",
                       message |-> FetchErrorMessage(loops[l].kind,
                                                     loops[l].reqs[n].resp)]
        /\ \A i, k \in 1..Len(loops[l].trace) :
              (i < k /\ loops[l].trace[i].ev = "reject")
                 => ~IsFetch(loops[l].trace[k])

\* C7: the completed_clips values handed to the callback during one poll
\* never decrease (the service's own count never decreases).
C7_CompletedClipsMonotone ==
    \A l \in LoopIds :
        \A i, k \in 1..Len(Calls(l)) :
            i < k => Calls(l)[i].arg.body.completed_clips
                        <= Calls(l)[k].arg.body.completed_clips

----------------------------------------------------------------------------
(* JavaScript numbers and the timecode texts                               *)

\* a text is a sequence of characters; the characters of the model are the
\* digits, ":", "-" and letters, so a field is numeric iff it is empty, or
\* digits, or "-" and digits (no blanks, signs "+", points or exponents)
Digits == <<"0", "1", "2", "3", "4", "5", "6", "7", "8", "9">>
IsDigit(c) == \E i \in 1..10 : Digits[i] = c
DigitVal(c) == (CHOOSE i \in 1..10 : Digits[i] = c) - 1

\* the not-a-number value of Number(...) and of arithmetic on it
NaN == -(10 ^ 6)

JsAdd(a, b) == IF a = NaN \/ b = NaN THEN NaN ELSE a + b
JsMul(a, b) == IF a = NaN \/ b = NaN THEN NaN ELSE a * b
\* Math.min / Math.max: NaN when an argument is NaN
JsMin(a, b) == IF a = NaN \/ b = NaN THEN NaN ELSE IF a <= b THEN a ELSE b
JsMax(a, b) == IF a = NaN \/ b = NaN THEN NaN ELSE IF a >= b THEN a ELSE b
\* <, <=: false when an operand is NaN
JsLt(a, b) == a # NaN /\ b # NaN /\ a < b
JsLe(a, b) == a # NaN /\ b # NaN /\ a <= b

RECURSIVE DecVal(_)
DecVal(f) ==
    IF f = <<>> THEN 0
    ELSE 10 * DecVal(SubSeq(f, 1, Len(f) - 1)) + DigitVal(f[Len(f)])

AllDigits(f) == \A i \in 1..Len(f) : IsDigit(f[i])

\* Number(field) of timeString.split(':').map(Number)
Number(f) ==
    IF f = <<>> THEN 0
    ELSE IF AllDigits(f) THEN DecVal(f)
    ELSE IF f[1] = "-" /\ Len(f) > 1 /\ AllDigits(Tail(f)) THEN -DecVal(Tail(f))
    ELSE NaN

\* timeString.split(':')
RECURSIVE Split(_)
Split(text) ==
    IF \A i \in 1..Len(text) : text[i] # ":" THEN <<text>>
    ELSE LET k == CHOOSE i \in 1..Len(text) :
                    text[i] = ":" /\ \A m \in 1..(i - 1) : text[m] # ":"
         IN <<SubSeq(text, 1, k - 1)>> \o Split(SubSeq(text, k + 1, Len(text)))

\* a variant of parseTimeToSeconds that leaves the hours out
parseMinutesAndSeconds(timeString) ==
    LET parts == Split(timeString)
    IN IF Len(parts) = 3
       THEN JsAdd(JsMul(Number(parts[2]), 60), Number(parts[3]))
       ELSE 0

parseTimeToSeconds(timeString) ==
    LET parts == Split(timeString)
    IN IF Len(parts) = 3
       THEN JsAdd(JsAdd(JsMul(Number(parts[1]), 3600),
                        JsMul(Number(parts[2]), 60)),
                  Number(parts[3]))
       ELSE 0

RECURSIVE NatToText(_)
NatToText(k) ==
    IF k < 10 THEN <<Digits[k + 1]>>
    ELSE NatToText(k \div 10) \o <<Digits[(k % 10) + 1]>>

\* k.toString().padStart(2, '0')
Pad2(k) ==
    LET str == IF k < 0 THEN <<"-">> \o NatToText(-k) ELSE NatToText(k)
    IN IF Len(str) < 2 THEN <<"0">> \o str ELSE str

\* the % of JavaScript: the remainder has the sign of the dividend
JsRem(a, b) == IF a >= 0 THEN a % b ELSE -((-a) % b)

NaNText == <<"N", "a", "N">>

\* formatSecondsToTime of lib/youtube: HH:MM:SS, zero-padded, computed as
\* the repository formats a duration (floor, %, padStart)
formatSecondsToTime(seconds) ==
    IF seconds = NaN
    THEN NaNText \o <<":">> \o NaNText \o <<":">> \o NaNText
    ELSE Pad2(seconds \div 3600) \o <<":">>
            \o Pad2(JsRem(seconds, 3600) \div 60) \o <<":">>
            \o Pad2(JsRem(seconds, 60))

----------------------------------------------------------------------------
(* The editor: page.tsx (Home) and components/VideoPlayer.tsx              *)

MaxClips == 1
MaxClock == 2
PointerSteps == 2

\* useState(30) and the initialEndTime default "00:00:30"
DefaultEndSeconds == 30
\* the durations a player reports: a video shorter than the default range
\* and a longer one
Durations == {20, 40}

NoClip == 0
NoTitle == <<>>
DefaultStartText == <<"0", "0", ":", "0", "0", ":", "0", "0">>
DefaultEndText == <<"0", "0", ":", "0", "0", ":", "3", "0">>

\* what a user types into a time field of a clip card
EditTexts ==
    { <<>>,
      <<"0", "0", ":", "0", "0", ":", "1", "0">>,
      <<"0", "0", ":", "0", "0", ":", "3", "x">> }

\* what a user types into the title field before adding a clip
TitleInputs == { <<" ", "A">> }

\* clipTitle.trim() || undefined
RECURSIVE Trim(_)
Trim(t) ==
    IF t = <<>> THEN t
    ELSE IF t[1] = " " THEN Trim(Tail(t))
    ELSE IF t[Len(t)] = " " THEN Trim(SubSeq(t, 1, Len(t) - 1))
    ELSE t

ClipIdsOf(cs) == {cs[i].id : i \in 1..Len(cs)}

\* clips.find(c => c.id === id): the first clip with that id
FindClip(cs, id) ==
    LET hits == {i \in 1..Len(cs) : cs[i].id = id}
    IN cs[CHOOSE i \in hits : \A k \in hits : i <= k]

\* the initialStartTime / initialEndTime Home passes to VideoPlayer, with the
\* defaults of the component for an absent (undefined or empty) value
initialStartTime(cs, sel) ==
    IF sel # NoClip /\ sel \in ClipIdsOf(cs) /\ FindClip(cs, sel).startTime # <<>>
    THEN FindClip(cs, sel).startTime
    ELSE DefaultStartText

\* a variant of initialEndTime without the "|| undefined" of page.tsx: the
\* stored text is passed on even when it is empty
initialEndTimeStored(cs, sel) ==
    IF sel # NoClip /\ sel \in ClipIdsOf(cs)
    THEN FindClip(cs, sel).endTime
    ELSE DefaultEndText

initialEndTime(cs, sel) ==
    IF sel # NoClip /\ sel \in ClipIdsOf(cs) /\ FindClip(cs, sel).endTime # <<>>
    THEN FindClip(cs, sel).endTime
    ELSE DefaultEndText

\* the effect on [selectedClipId]: the range is set from the props
SeedEffect(cs, sel) ==
    /\ startTime' = parseTimeToSeconds(initialStartTime(cs, sel))
    /\ endTime' = parseTimeToSeconds(initialEndTime(cs, sel))

\* updateClip: clips.map(clip => clip.id === id ? {...clip, [field]: value} : clip)
updateClip(cs, id, field, value) ==
    [i \in 1..Len(cs) |->
        IF cs[i].id = id THEN [cs[i] EXCEPT ![field] = value] ELSE cs[i]]

\* handleClipTimeUpdate: two updateClip calls on the clips of one render;
\* the state set last is the one that stays
handleClipTimeUpdate(cs, sel, startText, endText) ==
    IF sel # NoClip THEN updateClip(cs, sel, "endTime", endText) ELSE cs

\* removeClip: clips.filter(clip => clip.id !== id)
RECURSIVE removeClip(_, _)
removeClip(cs, id) ==
    IF cs = <<>> THEN <<>>
    ELSE (IF Head(cs).id = id THEN <<>> ELSE <<Head(cs)>>)
            \o removeClip(Tail(cs), id)

\* intervalRef.current = null
NoTimer == 0

\* the handle setInterval returns: one no existing timer has and the ref
\* does not hold
NewTimerId ==
    LET used == {t.id : t \in timers} \cup {intervalRef}
    IN CHOOSE n \in 1..(Cardinality(used) + 1) : n \notin used

\* clearInterval(id)
clearInterval(ts, id) == {t \in ts : t.id # id}

\* if (intervalRef.current) clearInterval(intervalRef.current)
clearCurrent(ts, ref) == IF ref # NoTimer THEN clearInterval(ts, ref) ELSE ts

\* the cleanup of the effect on []: it runs when the component unmounts
\* a variant of the cleanup that leaves the timer alone
unmountNoCleanup(ts, ref) == ts

unmountCleanup(ts, ref) == clearCurrent(ts, ref)

\* player.seekTo(t, true): the player keeps its position within the video
YtSeek(t) ==
    IF t = NaN THEN ytTime
    ELSE IF t < 0 THEN 0
    ELSE IF t > duration THEN duration
    ELSE t

\* the most state changes of the player that wait for their handler
MaxEvents == 2

\* the events waiting after a seek: a playing player may buffer and change
\* to playing again, which calls onPlay once more
SeekEvents ==
    {ytEvents} \cup
        (IF ytState = "playing" /\ Len(ytEvents) < MaxEvents
         THEN {Append(ytEvents, "play")} ELSE {})

\* the clock moves on
ClockTick ==
    /\ now < MaxClock
    /\ now' = now + 1
    /\ lastEvent' = "ClockTick"
    /\ UNCHANGED <<clips, selectedClipId, showVideoPlayer, player, duration,
                   isDragging, startTime, endTime, currentTime>>
    /\ UNCHANGED playVars
    /\ UNCHANGED workVars
    /\ UNCHANGED timeVars
    /\ UNCHANGED catalogVars
    /\ UNCHANGED pollVars

\* onReady of the YouTube component
onReady(d) ==
    /\ showVideoPlayer
    /\ ~player
    /\ player' = TRUE
    /\ duration' = d
    /\ lastEvent' = "onReady"
    /\ UNCHANGED <<clips, selectedClipId, now, showVideoPlayer, isDragging,
                   startTime, endTime, currentTime>>
    /\ UNCHANGED playVars
    /\ UNCHANGED workVars
    /\ UNCHANGED timeVars
    /\ UNCHANGED catalogVars
    /\ UNCHANGED pollVars

\* onMouseDown of the start / end handle
handleMouseDown(h) ==
    /\ showVideoPlayer
    /\ isDragging = "none"
    /\ isDragging' = h
    /\ lastEvent' = "handleMouseDown"
    /\ UNCHANGED <<clips, selectedClipId, now, showVideoPlayer, player,
                   duration, startTime, endTime, currentTime>>
    /\ UNCHANGED playVars
    /\ UNCHANGED workVars
    /\ UNCHANGED timeVars
    /\ UNCHANGED catalogVars
    /\ UNCHANGED pollVars

\* handleDragMove, the pointer at p / PointerSteps of the track
handleDragMove(p) ==
    /\ showVideoPlayer
    /\ isDragging # "none"
    /\ player
    /\ LET newTime == (p * duration) \div PointerSteps
       IN IF isDragging = "start"
          THEN LET newStartTime == JsMin(newTime, JsAdd(endTime, -1))
               IN /\ startTime' = newStartTime
                  /\ clips' = handleClipTimeUpdate(clips, selectedClipId,
                                 formatSecondsToTime(newStartTime),
                                 formatSecondsToTime(endTime))
                  /\ currentTime' = newStartTime
                  /\ ytTime' = YtSeek(newStartTime)
                  /\ ytEvents' \in SeekEvents
                  /\ UNCHANGED endTime
          ELSE LET newEndTime == JsMax(newTime, JsAdd(startTime, 1))
               IN /\ endTime' = newEndTime
                  /\ clips' = handleClipTimeUpdate(clips, selectedClipId,
                                 formatSecondsToTime(startTime),
                                 formatSecondsToTime(newEndTime))
                  /\ UNCHANGED <<startTime, currentTime, ytTime, ytEvents>>
    /\ lastEvent' = "handleDragMove"
    /\ UNCHANGED <<selectedClipId, now, showVideoPlayer, player, duration,
                   isDragging>>
    /\ UNCHANGED <<isPlaying, intervalRef, timers, ytState>>
    /\ UNCHANGED workVars
    /\ UNCHANGED timeVars
    /\ UNCHANGED catalogVars
    /\ UNCHANGED pollVars

\* a variant of handleDragEnd that seeks to the start of the range when the
\* drag ends
handleDragEndSeeking ==
    /\ showVideoPlayer
    /\ isDragging # "none"
    /\ isDragging' = "none"
    /\ lastEvent' = "handleDragEnd"
    /\ ytTime' = IF player THEN YtSeek(startTime) ELSE ytTime
    /\ currentTime' = IF player THEN startTime ELSE currentTime
    /\ UNCHANGED <<clips, selectedClipId, now, showVideoPlayer, player,
                   duration, startTime, endTime>>
    /\ UNCHANGED <<isPlaying, intervalRef, timers, ytState, ytEvents>>
    /\ UNCHANGED workVars
    /\ UNCHANGED timeVars
    /\ UNCHANGED catalogVars
    /\ UNCHANGED pollVars

\* handleDragEnd (mouseup)
handleDragEnd ==
    /\ showVideoPlayer
    /\ isDragging # "none"
    /\ isDragging' = "none"
    /\ lastEvent' = "handleDragEnd"
    /\ UNCHANGED <<clips, selectedClipId, now, showVideoPlayer, player,
                   duration, startTime, endTime, currentTime>>
    /\ UNCHANGED playVars
    /\ UNCHANGED workVars
    /\ UNCHANGED timeVars
    /\ UNCHANGED catalogVars
    /\ UNCHANGED pollVars

\* a click on a clip card (a click needs the mouse button up, so no drag is
\* under way): selectClipForEditing, then the seed effect of a mounted
\* VideoPlayer when the selected id changed
selectClipForEditing(id) ==
    /\ isDragging = "none"
    /\ id \in ClipIdsOf(clips)
    /\ selectedClipId' = id
    /\ IF showVideoPlayer /\ id # selectedClipId
       THEN SeedEffect(clips, id)
       ELSE UNCHANGED <<startTime, endTime>>
    /\ lastEvent' = IF id # selectedClipId THEN "selectClipForEditing"
                     ELSE "reselect"
    /\ UNCHANGED <<clips, now, showVideoPlayer, player, duration, isDragging,
                   currentTime>>
    /\ UNCHANGED playVars
    /\ UNCHANGED workVars
    /\ UNCHANGED timeVars
    /\ UNCHANGED catalogVars
    /\ UNCHANGED pollVars

\* the add button of ClipTimingDisplay: handleAddClip, handleAddClipFromVideo;
\* limit bounds the length of the list
handleAddClipFromVideo(titleInput, limit) ==
    /\ showVideoPlayer
    /\ isDragging = "none"
    /\ Len(clips) < limit
    /\ clips' = Append(clips,
                  [id |-> now,
                   startTime |-> formatSecondsToTime(startTime),
                   endTime |-> formatSecondsToTime(endTime),
                   title |-> Trim(titleInput)])
    /\ lastEvent' = "handleAddClipFromVideo"
    /\ UNCHANGED <<selectedClipId, now, showVideoPlayer, player, duration,
                   isDragging, startTime, endTime, currentTime>>
    /\ UNCHANGED playVars
    /\ UNCHANGED workVars
    /\ UNCHANGED timeVars
    /\ UNCHANGED catalogVars
    /\ UNCHANGED pollVars

\* typing into the start or end field of a clip card
editClipTime(id, field, value) ==
    /\ id \in ClipIdsOf(clips)
    /\ clips' = updateClip(clips, id, field, value)
    /\ clips' # clips
    /\ lastEvent' = "editClipTime"
    /\ UNCHANGED <<selectedClipId, now, showVideoPlayer, player, duration,
                   isDragging, startTime, endTime, currentTime>>
    /\ UNCHANGED playVars
    /\ UNCHANGED workVars
    /\ UNCHANGED timeVars
    /\ UNCHANGED catalogVars
    /\ UNCHANGED pollVars

\* the remove button of a clip card: removeClip, and the click reaches the
\* card, which selects the clip; the seed effect runs if the id changed
clickRemove(id) ==
    /\ isDragging = "none"
    /\ id \in ClipIdsOf(clips)
    /\ clips' = removeClip(clips, id)
    /\ selectedClipId' = id
    /\ IF showVideoPlayer /\ id # selectedClipId
       THEN SeedEffect(clips', id)
       ELSE UNCHANGED <<startTime, endTime>>
    /\ lastEvent' = "clickRemove"
    /\ UNCHANGED <<now, showVideoPlayer, player, duration, isDragging,
                   currentTime>>
    /\ UNCHANGED playVars
    /\ UNCHANGED workVars
    /\ UNCHANGED timeVars
    /\ UNCHANGED catalogVars
    /\ UNCHANGED pollVars

\* the Preview button: toggleVideoPlayer unmounts the VideoPlayer (the cleanup
\* of its effects runs, the YouTube player is destroyed), or mounts a new one,
\* whose state is the initial one and whose effect seeds the range
toggleVideoPlayer ==
    /\ isDragging = "none"
    /\ showVideoPlayer' = ~showVideoPlayer
    /\ player' = FALSE
    /\ duration' = 0
    /\ isDragging' = "none"
    /\ currentTime' = 0
    /\ isPlaying' = FALSE
    /\ intervalRef' = NoTimer
    /\ ytState' = "unstarted"
    /\ ytTime' = 0
    /\ ytEvents' = <<>>
    /\ IF showVideoPlayer
       THEN /\ startTime' = 0 /\ endTime' = DefaultEndSeconds
            /\ timers' = unmountCleanup(timers, intervalRef)
            /\ lastEvent' = IF timers # {} THEN "unmountWithTimer" ELSE "unmount"
       ELSE /\ SeedEffect(clips, selectedClipId)
            /\ timers' = timers
            /\ lastEvent' = "remount"
    /\ UNCHANGED <<clips, selectedClipId, now>>
    /\ UNCHANGED workVars
    /\ UNCHANGED timeVars
    /\ UNCHANGED catalogVars
    /\ UNCHANGED pollVars

\* the play / pause button
togglePlayPause ==
    /\ showVideoPlayer
    /\ player
    /\ isDragging = "none"
    /\ IF isPlaying
       THEN \* player.pauseVideo()
            /\ ytState' = IF ytState = "playing" THEN "paused" ELSE ytState
            /\ ytEvents' = IF ytState = "playing"
                           THEN Append(ytEvents, "pause") ELSE ytEvents
            /\ UNCHANGED ytTime
       ELSE \* seekTo(startTime) when outside the range, then playVideo()
            LET at == IF JsLt(ytTime, startTime) \/ JsLe(endTime, ytTime)
                      THEN YtSeek(startTime) ELSE ytTime
            IN /\ ytTime' = IF at = duration THEN 0 ELSE at
               /\ ytState' = "playing"
               /\ ytEvents' = IF ytState # "playing"
                              THEN Append(ytEvents, "play") ELSE ytEvents
    /\ Len(ytEvents') <= MaxEvents
    /\ lastEvent' = "togglePlayPause"
    /\ UNCHANGED <<clips, selectedClipId, now, showVideoPlayer, player,
                   duration, isDragging, startTime, endTime, currentTime>>
    /\ UNCHANGED <<isPlaying, intervalRef, timers>>
    /\ UNCHANGED workVars
    /\ UNCHANGED timeVars
    /\ UNCHANGED catalogVars
    /\ UNCHANGED pollVars

\* onPlay: the handler of the player's change to playing
onPlay ==
    /\ showVideoPlayer
    /\ ytEvents # <<>> /\ Head(ytEvents) = "play"
    /\ ytEvents' = Tail(ytEvents)
    /\ isPlaying' = TRUE
    /\ intervalRef' = NewTimerId
    /\ timers' = clearCurrent(timers, intervalRef)
                    \cup {[id |-> NewTimerId, endTime |-> endTime]}
    /\ lastEvent' = "onPlay"
    /\ UNCHANGED <<clips, selectedClipId, now, showVideoPlayer, player,
                   duration, isDragging, startTime, endTime, currentTime>>
    /\ UNCHANGED <<ytState, ytTime>>
    /\ UNCHANGED workVars
    /\ UNCHANGED timeVars
    /\ UNCHANGED catalogVars
    /\ UNCHANGED pollVars

\* onPause: the handler of the player's change to paused
onPause ==
    /\ showVideoPlayer
    /\ ytEvents # <<>> /\ Head(ytEvents) = "pause"
    /\ ytEvents' = Tail(ytEvents)
    /\ isPlaying' = FALSE
    /\ timers' = clearCurrent(timers, intervalRef)
    /\ intervalRef' = NoTimer
    /\ lastEvent' = "onPause"
    /\ UNCHANGED <<clips, selectedClipId, now, showVideoPlayer, player,
                   duration, isDragging, startTime, endTime, currentTime>>
    /\ UNCHANGED <<ytState, ytTime>>
    /\ UNCHANGED workVars
    /\ UNCHANGED timeVars
    /\ UNCHANGED catalogVars
    /\ UNCHANGED pollVars

\* the callback of the interval of onPlay, run by timer t: it compares the
\* player's time with the endTime of the render onPlay ran in
sampleTick(t) ==
    /\ t \in timers
    /\ IF showVideoPlayer THEN currentTime' = ytTime ELSE UNCHANGED currentTime
    /\ IF JsLe(t.endTime, ytTime)
       THEN /\ ytState' = IF ytState = "playing" THEN "paused" ELSE ytState
            /\ ytEvents' = IF ytState = "playing"
                           THEN Append(ytEvents, "pause") ELSE ytEvents
            /\ isPlaying' = FALSE
       ELSE UNCHANGED <<ytState, ytEvents, isPlaying>>
    /\ Len(ytEvents') <= MaxEvents
    /\ lastEvent' = "sampleTick"
    /\ UNCHANGED <<clips, selectedClipId, now, showVideoPlayer, player,
                   duration, isDragging, startTime, endTime>>
    /\ UNCHANGED <<intervalRef, timers, ytTime>>
    /\ UNCHANGED workVars
    /\ UNCHANGED timeVars
    /\ UNCHANGED catalogVars
    /\ UNCHANGED pollVars

\* the video plays on; at its end the player changes to ended, a change
\* the component passes no handler for
ytAdvance ==
    /\ ytState = "playing"
    /\ LET to == ytTime + (duration \div PointerSteps)
       IN IF to >= duration
          THEN ytTime' = duration /\ ytState' = "ended"
          ELSE ytTime' = to /\ UNCHANGED ytState
    /\ lastEvent' = "ytAdvance"
    /\ UNCHANGED <<clips, selectedClipId, now, showVideoPlayer, player,
                   duration, isDragging, startTime, endTime, currentTime>>
    /\ UNCHANGED <<isPlaying, intervalRef, timers, ytEvents>>
    /\ UNCHANGED workVars
    /\ UNCHANGED timeVars
    /\ UNCHANGED catalogVars
    /\ UNCHANGED pollVars

----------------------------------------------------------------------------
(* The workflows of Home: download a video, create clips                   *)

NoVideo == "<null>"
NoJob == "<null>"
NoMessage == "<null>"
NoStatus == [status |-> "<null>"]
NoAlert == "<none>"

\* texts of the URL field: empty, blank, not a URL, a video URL
VideoUrl == "https://www.youtube.com/watch?v=abc"
UrlInputs == {"", "  ", "not a url", VideoUrl}

\* a text the browser accepts in a type="url" field
ValidUrl(u) == u = VideoUrl

\* youtubeUrl.trim()
TrimUrl(u) == IF u = "  " THEN "" ELSE u

\* a variant of validateTimeFormat that only counts the fields
validateTimeFields(time) == Len(Split(time)) = 3

\* validateTimeFormat: /^([0-1]?[0-9]|2[0-3]):[0-5][0-9]:[0-5][0-9]$/
UpTo(c, top) == IsDigit(c) /\ DigitVal(c) <= top

validateTimeFormat(time) ==
    LET parts == Split(time)
        hh == parts[1]
        mm == parts[2]
        ss == parts[3]
    IN /\ Len(parts) = 3
       /\ \/ Len(hh) = 1 /\ IsDigit(hh[1])
          \/ Len(hh) = 2 /\ UpTo(hh[1], 1) /\ IsDigit(hh[2])
          \/ Len(hh) = 2 /\ hh[1] = "2" /\ UpTo(hh[2], 3)
       /\ Len(mm) = 2 /\ UpTo(mm[1], 5) /\ IsDigit(mm[2])
       /\ Len(ss) = 2 /\ UpTo(ss[1], 5) /\ IsDigit(ss[2])

\* clips.filter(clip => !validateTimeFormat(clip.startTime) ||
\*                      !validateTimeFormat(clip.endTime)).length > 0
invalidClips(cs) ==
    \E i \in 1..Len(cs) :
        ~validateTimeFormat(cs[i].startTime) \/ ~validateTimeFormat(cs[i].endTime)

\* the messages of the POST operations of ClipSceneAPI
downloadVideoError(detail) ==
    IF detail # NoDetail THEN detail ELSE "Failed to download video"
createClipsError(detail) ==
    IF detail # NoDetail THEN detail ELSE "Failed to create clips"

\* err.message of what a failed POST of a workflow throws
PostErrorMessage(kind, resp) ==
    IF resp.t = "net" THEN NetworkErrorMessage
    ELSE IF kind = "download" THEN downloadVideoError(resp.detail)
    ELSE createClipsError(resp.detail)

\* the calls of the handlers that can be under way together
MaxFlows == 1
FlowIds == DOMAIN flows

\* jobId and jobStatus as a handler finds them when it is called
Shown(id, status) == [jobId |-> id, jobStatus |-> status]

\* before: what the page showed when the handler of the call was entered
NoFlow == [kind |-> "none", pc |-> "none", loop |-> 0,
           before |-> Shown(NoJob, NoStatus)]

\* the first free place for a call
FreeFlow == CHOOSE f \in FlowIds : flows[f] = NoFlow /\ \A g \in 1..(f - 1) : flows[g] # NoFlow

\* the first loop slot not in use
FreeLoop == CHOOSE l \in LoopIds : CanStart(l)

Alerted(handler, message) == [handler |-> handler, alert |-> message]

\* typing into the URL field
setYoutubeUrl(u) ==
    /\ u # youtubeUrl
    /\ youtubeUrl' = u
    /\ UNCHANGED <<downloadedVideo, isDownloading, isProcessing, jobId,
                   jobStatus, videoStatus, error, flows, sent, lastSubmit>>
    /\ UNCHANGED pollVars
    /\ UNCHANGED editorVars
    /\ UNCHANGED timeVars
    /\ UNCHANGED catalogVars

\* the clip list becomes cs: a clip is added from the initial range, its start
\* field is edited, or it is removed
setClips(cs) ==
    /\ cs # clips
    /\ clips' = cs
    /\ UNCHANGED <<selectedClipId, now, showVideoPlayer, player, duration,
                   isDragging, startTime, endTime, currentTime, lastEvent>>
    /\ UNCHANGED playVars
    /\ UNCHANGED workVars
    /\ UNCHANGED timeVars
    /\ UNCHANGED catalogVars
    /\ UNCHANGED pollVars

\* the Download button (disabled while isDownloading or while the URL is
\* blank): handleDownloadVideo up to its first await
handleDownloadVideo ==
    /\ ~(isDownloading \/ TrimUrl(youtubeUrl) = "")
    /\ IF TrimUrl(youtubeUrl) = ""
       THEN /\ lastSubmit' = Alerted("handleDownloadVideo", "Please enter a YouTube URL")
            /\ UNCHANGED <<isDownloading, error, videoStatus, flows, sent>>
       ELSE /\ \E f \in FlowIds : flows[f] = NoFlow
            /\ isDownloading' = TRUE
            /\ error' = NoMessage
            /\ videoStatus' = NoStatus
            /\ flows' = [flows EXCEPT ![FreeFlow] =
                            [kind |-> "download", pc |-> "submit", loop |-> 0,
                             before |-> Shown(jobId, jobStatus)]]
            /\ sent' = sent \cup {[op |-> "downloadVideo",
                                   arg |-> TrimUrl(youtubeUrl)]}
            /\ lastSubmit' = Alerted("handleDownloadVideo", NoAlert)
    /\ UNCHANGED <<youtubeUrl, downloadedVideo, isProcessing, jobId, jobStatus>>
    /\ UNCHANGED pollVars
    /\ UNCHANGED editorVars
    /\ UNCHANGED timeVars
    /\ UNCHANGED catalogVars

\* a variant of handleCreateClips, and of its button, without the test for a
\* downloaded video
createClipsWithoutVideo ==
    /\ ~(isProcessing \/ Len(clips) = 0)
    /\ IF invalidClips(clips)
       THEN /\ lastSubmit' = Alerted("handleCreateClips",
                                "Please enter valid time formats (hh:mm:ss) for all clips")
            /\ UNCHANGED <<isProcessing, error, jobStatus, flows, sent>>
       ELSE /\ \E f \in FlowIds : flows[f] = NoFlow
            /\ isProcessing' = TRUE
            /\ error' = NoMessage
            /\ jobStatus' = NoStatus
            /\ flows' = [flows EXCEPT ![FreeFlow] =
                            [kind |-> "create", pc |-> "submit", loop |-> 0,
                             before |-> Shown(jobId, jobStatus)]]
            /\ sent' = sent \cup {[op |-> "createClipsFromVideo",
                                   arg |-> downloadedVideo]}
            /\ lastSubmit' = Alerted("handleCreateClips", NoAlert)
    /\ UNCHANGED <<youtubeUrl, downloadedVideo, isDownloading, jobId, videoStatus>>
    /\ UNCHANGED pollVars
    /\ UNCHANGED editorVars
    /\ UNCHANGED timeVars
    /\ UNCHANGED catalogVars

\* the Create Clips button (disabled while isProcessing, without a
\* downloaded video, or with no clips): handleCreateClips up to its first
\* await
handleCreateClips ==
    /\ ~(isProcessing \/ downloadedVideo = NoVideo \/ Len(clips) = 0)
    /\ IF downloadedVideo = NoVideo
       THEN /\ lastSubmit' = Alerted("handleCreateClips", "Please download a video first")
            /\ UNCHANGED <<isProcessing, error, jobStatus, flows, sent>>
       ELSE IF Len(clips) = 0
       THEN /\ lastSubmit' = Alerted("handleCreateClips",
                                "Please add at least one clip before creating clips")
            /\ UNCHANGED <<isProcessing, error, jobStatus, flows, sent>>
       ELSE IF invalidClips(clips)
       THEN /\ lastSubmit' = Alerted("handleCreateClips",
                                "Please enter valid time formats (hh:mm:ss) for all clips")
            /\ UNCHANGED <<isProcessing, error, jobStatus, flows, sent>>
       ELSE /\ \E f \in FlowIds : flows[f] = NoFlow
            /\ isProcessing' = TRUE
            /\ error' = NoMessage
            /\ jobStatus' = NoStatus
            /\ flows' = [flows EXCEPT ![FreeFlow] =
                            [kind |-> "create", pc |-> "submit", loop |-> 0,
                             before |-> Shown(jobId, jobStatus)]]
            /\ sent' = sent \cup {[op |-> "createClipsFromVideo",
                                   arg |-> downloadedVideo]}
            /\ lastSubmit' = Alerted("handleCreateClips", NoAlert)
    /\ UNCHANGED <<youtubeUrl, downloadedVideo, isDownloading, jobId, videoStatus>>
    /\ UNCHANGED pollVars
    /\ UNCHANGED editorVars
    /\ UNCHANGED timeVars
    /\ UNCHANGED catalogVars

\* onSubmit of the form, which the browser raises when the required
\* type="url" field holds a URL: handleSubmit up to its first await
handleSubmit ==
    /\ ValidUrl(youtubeUrl)
    /\ IF TrimUrl(youtubeUrl) = ""
       THEN /\ lastSubmit' = Alerted("handleSubmit", "Please enter a YouTube URL")
            /\ UNCHANGED <<isProcessing, error, jobStatus, flows, sent>>
       ELSE IF Len(clips) = 0
       THEN /\ lastSubmit' = Alerted("handleSubmit",
                                "Please add at least one clip before creating clips")
            /\ UNCHANGED <<isProcessing, error, jobStatus, flows, sent>>
       ELSE IF invalidClips(clips)
       THEN /\ lastSubmit' = Alerted("handleSubmit",
                                "Please enter valid time formats (hh:mm:ss) for all clips")
            /\ UNCHANGED <<isProcessing, error, jobStatus, flows, sent>>
       ELSE /\ \E f \in FlowIds : flows[f] = NoFlow
            /\ isProcessing' = TRUE
            /\ error' = NoMessage
            /\ jobStatus' = NoStatus
            /\ flows' = [flows EXCEPT ![FreeFlow] =
                            [kind |-> "submit", pc |-> "submit", loop |-> 0,
                             before |-> Shown(jobId, jobStatus)]]
            /\ sent' = sent \cup {[op |-> "createClips",
                                   arg |-> TrimUrl(youtubeUrl)]}
            /\ lastSubmit' = Alerted("handleSubmit", NoAlert)
    /\ UNCHANGED <<youtubeUrl, downloadedVideo, isDownloading, jobId, videoStatus>>
    /\ UNCHANGED pollVars
    /\ UNCHANGED editorVars
    /\ UNCHANGED timeVars
    /\ UNCHANGED catalogVars

\* finally { setIsDownloading(false) } / finally { setIsProcessing(false) }
Finally(kind) ==
    IF kind = "download"
    THEN isDownloading' = FALSE /\ UNCHANGED isProcessing
    ELSE isProcessing' = FALSE /\ UNCHANGED isDownloading

\* the POST of call f is answered with a new id: the handler resumes and
\* starts its poll
postSucceeds(f, id) ==
    /\ flows[f].pc = "submit"
    /\ \E l \in LoopIds : CanStart(l)
    /\ FetchBudget
    /\ loops' = [loops EXCEPT ![FreeLoop] =
          StartChained(IF flows[f].kind = "download" THEN "video" ELSE "job", id)]
    /\ flows' = [flows EXCEPT ![f].pc = "poll", ![f].loop = FreeLoop]
    /\ jobId' = IF flows[f].kind = "download" THEN jobId ELSE id
    /\ lastSubmit' = Alerted("postSucceeds", NoAlert)
    /\ UNCHANGED <<youtubeUrl, downloadedVideo, isDownloading, isProcessing,
                   jobStatus, videoStatus, error, sent>>
    /\ UNCHANGED server
    /\ UNCHANGED editorVars
    /\ UNCHANGED timeVars
    /\ UNCHANGED catalogVars

\* the POST of call f fails: catch, finally
postFails(f, resp) ==
    /\ flows[f].pc = "submit"
    /\ error' = PostErrorMessage(flows[f].kind, resp)
    /\ Finally(flows[f].kind)
    /\ flows' = [flows EXCEPT ![f] = NoFlow]
    /\ lastSubmit' = Alerted("postFails", NoAlert)
    /\ UNCHANGED <<youtubeUrl, downloadedVideo, jobId, jobStatus, videoStatus,
                   sent>>
    /\ UNCHANGED pollVars
    /\ UNCHANGED editorVars
    /\ UNCHANGED timeVars
    /\ UNCHANGED catalogVars

\* the call that awaits the promise of loop l
Awaits(l) == CHOOSE f \in FlowIds : flows[f].pc = "poll" /\ flows[f].loop = l

\* the response of fetch n of the poll of a workflow arrives: the callback
\* stores the snapshot, and when the promise settles the handler resumes
flowDeliver(l, n) ==
    /\ CanDeliver(l, n)
    /\ \E f \in FlowIds : flows[f].pc = "poll" /\ flows[f].loop = l
    /\ loops' = [loops EXCEPT ![l] = AfterDeliver(l, n)]
    /\ LET f == Awaits(l)
           kind == flows[f].kind
           resp == loops[l].reqs[n].resp
           L == AfterDeliver(l, n)
       IN /\ IF resp.t = "ok" /\ kind = "download"
             THEN videoStatus' = resp.body ELSE UNCHANGED videoStatus
          /\ IF resp.t = "ok" /\ kind # "download"
             THEN jobStatus' = resp.body ELSE UNCHANGED jobStatus
          /\ IF L.promise = "pending"
             THEN UNCHANGED <<downloadedVideo, isDownloading, isProcessing,
                              error, flows, sent>>
             ELSE /\ Finally(kind)
                  /\ flows' = [flows EXCEPT ![f] = NoFlow]
                  /\ error' = IF L.promise = "rejected"
                              THEN L.value.message ELSE error
                  /\ IF /\ L.promise = "resolved"
                        /\ kind = "download"
                        /\ L.value.body.status = "completed"
                     THEN /\ downloadedVideo' = loops[l].job
                          /\ sent' = sent \cup {[op |-> "listVideos", arg |-> ""]}
                     ELSE UNCHANGED <<downloadedVideo, sent>>
    /\ lastSubmit' = Alerted("flowDeliver", NoAlert)
    /\ UNCHANGED <<youtubeUrl, jobId>>
    /\ UNCHANGED server
    /\ UNCHANGED editorVars
    /\ UNCHANGED timeVars
    /\ UNCHANGED catalogVars

HomeInit ==
    /\ youtubeUrl = ""
    /\ downloadedVideo = NoVideo
    /\ isDownloading = FALSE
    /\ isProcessing = FALSE
    /\ jobId = NoJob
    /\ jobStatus = NoStatus
    /\ videoStatus = NoStatus
    /\ error = NoMessage
    /\ flows = [f \in 1..MaxFlows |-> NoFlow]
    /\ sent = {}
    /\ lastSubmit = Alerted("none", NoAlert)

EditorInit ==
    /\ clips = <<>>
    /\ selectedClipId = NoClip
    /\ now = 1
    /\ showVideoPlayer = TRUE
    /\ player = FALSE
    /\ duration = 0
    /\ isDragging = "none"
    /\ startTime = 0
    /\ endTime = DefaultEndSeconds
    /\ currentTime = 0
    /\ lastEvent = "mount"
    /\ isPlaying = FALSE
    /\ intervalRef = NoTimer
    /\ timers = {}
    /\ ytState = "unstarted"
    /\ ytTime = 0
    /\ ytEvents = <<>>
    /\ HomeInit

EditorNext ==
    \/ ClockTick
    \/ \E d \in Durations : onReady(d)
    \/ \E h \in {"start", "end"} : handleMouseDown(h)
    \/ \E p \in 0..PointerSteps : handleDragMove(p)
    \/ handleDragEnd
    \/ \E id \in 1..MaxClock : selectClipForEditing(id)
    \/ \E t \in TitleInputs : handleAddClipFromVideo(t, MaxClips)
    \/ \E id \in 1..MaxClock, f \in {"startTime", "endTime"}, v \in EditTexts :
          editClipTime(id, f, v)
    \/ \E id \in 1..MaxClock : clickRemove(id)
    \/ toggleVideoPlayer

----------------------------------------------------------------------------
(* The specifications                                                      *)

----------------------------------------------------------------------------
(* lib/quality-utils.ts and components/QualitySelector.tsx                 *)

\* QualityOption
Qualities == {"720p", "1080p", "1440p", "4K"}

\* format.resolution of a format that has none
NoResolution == <<"<undefined>">>

\* resolution labels of formats
ResolutionLabels ==
    { <<"1", "2", "8", "0", "x", "7", "2", "0">>,
      <<"1", "9", "2", "0", "x", "1", "0", "8", "0">>,
      <<"2", "5", "6", "0", "x", "1", "4", "4", "0">>,
      <<"3", "8", "4", "0", "x", "2", "1", "6", "0">>,
      <<"4", "K">>,
      <<"4", "8", "0", "p">> }

\* the most formats a list has
MaxFormats == 2

\* VideoFormat, the field the quality functions read
VideoFormats == [resolution : ResolutionLabels \cup {NoResolution}]

FormatLists == UNION { [1..k -> VideoFormats] : k \in 0..MaxFormats }

\* String.prototype.toLowerCase on the letters of the labels
LowerChar(c) ==
    CASE c = "K" -> "k"
      [] c = "P" -> "p"
      [] c = "X" -> "x"
      [] OTHER -> c

toLowerCase(text) == [i \in 1..Len(text) |-> LowerChar(text[i])]

\* text.includes(token)
includes(text, token) ==
    \E i \in 1..(Len(text) - Len(token) + 1) :
        SubSeq(text, i, i + Len(token) - 1) = token

\* getTargetResolution
getTargetResolution(quality) ==
    CASE quality = "4K" -> <<"2", "1", "6", "0">>
      [] quality = "1440p" -> <<"1", "4", "4", "0">>
      [] quality = "1080p" -> <<"1", "0", "8", "0">>
      [] quality = "720p" -> <<"7", "2", "0">>
      [] OTHER -> <<"1", "0", "8", "0">>

\* format.resolution?.toLowerCase() || ''
resolutionOf(format) ==
    IF format.resolution = NoResolution THEN <<>>
    ELSE toLowerCase(format.resolution)

\* a variant of isQualityAvailable that looks for the target resolution only
hasTargetResolution(quality, formats) ==
    \E i \in 1..Len(formats) :
        includes(resolutionOf(formats[i]), getTargetResolution(quality))

isQualityAvailable(quality, formats) ==
    \E i \in 1..Len(formats) :
        LET resolution == resolutionOf(formats[i])
        IN \/ includes(resolution, getTargetResolution(quality))
           \/ /\ quality = "4K"
              /\ \/ includes(resolution, <<"2", "1", "6", "0">>)
                 \/ includes(resolution, <<"4", "k">>)
           \/ quality = "1440p" /\ includes(resolution, <<"1", "4", "4", "0">>)
           \/ quality = "1080p" /\ includes(resolution, <<"1", "0", "8", "0">>)
           \/ quality = "720p" /\ includes(resolution, <<"7", "2", "0">>)

\* the default preferenceOrder of getBestAvailableQuality
DefaultOrder == <<"1080p", "1440p", "720p", "4K">>

\* getBestAvailableQuality returns null
NoQuality == "null"

\* a variant of getBestAvailableQuality that walks the order from its end
RECURSIVE getLastAvailableQuality(_, _)
getLastAvailableQuality(formats, preferenceOrder) ==
    IF preferenceOrder = <<>> THEN NoQuality
    ELSE IF isQualityAvailable(preferenceOrder[Len(preferenceOrder)], formats)
    THEN preferenceOrder[Len(preferenceOrder)]
    ELSE getLastAvailableQuality(formats,
            SubSeq(preferenceOrder, 1, Len(preferenceOrder) - 1))

RECURSIVE getBestAvailableQuality(_, _)
getBestAvailableQuality(formats, preferenceOrder) ==
    IF preferenceOrder = <<>> THEN NoQuality
    ELSE IF isQualityAvailable(Head(preferenceOrder), formats)
    THEN Head(preferenceOrder)
    ELSE getBestAvailableQuality(formats, Tail(preferenceOrder))

\* nothing rendered or computed yet
NotRendered == [q \in Qualities |-> "unknown"]
NotComputed == [order |-> <<>>, quality |-> "unknown"]

\* findFormatForQuality returns undefined
NoFormat == [resolution |-> <<"<no format>">>]

\* the test of formats.some / formats.find for one format
matchesQuality(quality, format) ==
    LET resolution == resolutionOf(format)
    IN \/ includes(resolution, getTargetResolution(quality))
       \/ /\ quality = "4K"
          /\ \/ includes(resolution, <<"2", "1", "6", "0">>)
             \/ includes(resolution, <<"4", "k">>)
       \/ quality = "1440p" /\ includes(resolution, <<"1", "4", "4", "0">>)
       \/ quality = "1080p" /\ includes(resolution, <<"1", "0", "8", "0">>)
       \/ quality = "720p" /\ includes(resolution, <<"7", "2", "0">>)

\* a variant of findFormatForQuality that returns the last format that
\* matches
RECURSIVE findLastFormatForQuality(_, _)
findLastFormatForQuality(quality, formats) ==
    IF formats = <<>> THEN NoFormat
    ELSE IF matchesQuality(quality, formats[Len(formats)])
    THEN formats[Len(formats)]
    ELSE findLastFormatForQuality(quality, SubSeq(formats, 1, Len(formats) - 1))

\* findFormatForQuality: formats.find(...)
RECURSIVE findFormatForQuality(_, _)
findFormatForQuality(quality, formats) ==
    IF formats = <<>> THEN NoFormat
    ELSE IF matchesQuality(quality, Head(formats)) THEN Head(formats)
    ELSE findFormatForQuality(quality, Tail(formats))

\* findFormatForQuality was not called yet
NotFound == [quality |-> "unknown", format |-> NoFormat]

\* the catalog before any URL was entered
CatalogInit ==
    /\ availableFormats = <<>>
    /\ selectedQuality = "1080p"
    /\ available = NotRendered
    /\ best = NotComputed
    /\ debounceTimers = {}
    /\ unchangedFor = 0
    /\ discoveries = {}
    /\ catalogEvent = "none"
    /\ found = NotFound

\* no time has been formatted yet
TimeInit ==
    /\ inSeconds = 0
    /\ timecode = <<>>
    /\ outSeconds = 0
    /\ stage = "input"

Init == PollInit /\ EditorInit /\ TimeInit /\ CatalogInit

\* the polling loops alone
PollSpec == Init /\ [][PollNext]_vars

\* the editor alone
EditorSpec == Init /\ [][EditorNext]_vars

PlayNext ==
    \/ \E d \in Durations : onReady(d)
    \/ togglePlayPause
    \/ onPlay
    \/ onPause
    \/ \E t \in timers : sampleTick(t)
    \/ ytAdvance
    \/ \E h \in {"start", "end"} : handleMouseDown(h)
    \/ \E p \in 0..PointerSteps : handleDragMove(p)
    \/ handleDragEnd
    \/ toggleVideoPlayer

\* playback in the editor: the play button, the player's events, the
\* sampling interval, drags of the handles and the Preview button
PlaySpec == Init /\ [][PlayNext]_vars

\* the clip lists of the workflows: none, a clip as the add button makes it,
\* and that clip with its start field edited to 00:00:3x
WorkClips ==
    LET added == [id |-> 1, startTime |-> formatSecondsToTime(0),
                  endTime |-> formatSecondsToTime(DefaultEndSeconds),
                  title |-> NoTitle]
    IN { <<>>, <<added>>,
         <<[added EXCEPT !.startTime = <<"0", "0", ":", "0", "0", ":", "3", "x">>]>> }

WorkNext ==
    \/ \E u \in UrlInputs : setYoutubeUrl(u)
    \/ \E cs \in WorkClips : setClips(cs)
    \/ handleDownloadVideo
    \/ handleCreateClips
    \/ handleSubmit
    \/ \E f \in FlowIds, id \in JobIds : postSucceeds(f, id)
    \/ \E f \in FlowIds, r \in {NetFail} \cup {HttpFail(d) : d \in Details} :
          postFails(f, r)
    \/ \E l \in LoopIds : TimeoutFire(l)
    \/ \E l \in LoopIds, n \in 1..MaxFetch : ServerRespond(l, n)
    \/ \E l \in LoopIds, n \in 1..MaxFetch : ServerFail(l, n)
    \/ \E l \in LoopIds, n \in 1..MaxFetch : flowDeliver(l, n)

\* the workflows of Home with their polls
WorkSpec == Init /\ [][WorkNext]_vars

----------------------------------------------------------------------------
(* Properties of the range editor                                          *)

\* the handler that ran last was a drag update of a mounted editor
AfterDragUpdate == showVideoPlayer /\ lastEvent = "handleDragMove"

\* C8: after every drag update the range keeps a separation of at least one
\* second (startSeconds <= endSeconds - 1, endSeconds >= startSeconds + 1),
\* so startSeconds < endSeconds.
C8_DragKeepsSeparation ==
    AfterDragUpdate =>
        /\ JsLe(startTime, JsAdd(endTime, -1))
        /\ JsLe(JsAdd(startTime, 1), endTime)
        /\ JsLt(startTime, endTime)

\* C9: after every drag update both values are within the track:
\* 0 <= startSeconds and endSeconds <= duration.
C9_DragStaysOnTrack ==
    AfterDragUpdate => (JsLe(0, startTime) /\ JsLe(endTime, duration))

\* C10: 0 <= startSeconds < endSeconds <= duration in every state of the
\* editor.
C10_TimeRangeInvariant ==
    showVideoPlayer =>
        /\ JsLe(0, startTime)
        /\ JsLt(startTime, endTime)
        /\ JsLe(endTime, duration)

----------------------------------------------------------------------------
(* The editor with two clips in the list                                   *)

\* the list after two clips were added from the initial range, at the clock
\* values 1 and 2
TwoClips ==
    [i \in 1..2 |->
        [id |-> i, startTime |-> formatSecondsToTime(0),
         endTime |-> formatSecondsToTime(DefaultEndSeconds),
         title |-> NoTitle]]

SeedInit ==
    /\ PollInit
    /\ clips = TwoClips
    /\ selectedClipId = NoClip
    /\ now = 2
    /\ showVideoPlayer = TRUE
    /\ player = FALSE
    /\ duration = 0
    /\ isDragging = "none"
    /\ startTime = 0
    /\ endTime = DefaultEndSeconds
    /\ currentTime = 0
    /\ lastEvent = "mount"
    /\ isPlaying = FALSE
    /\ intervalRef = NoTimer
    /\ timers = {}
    /\ ytState = "unstarted"
    /\ ytTime = 0
    /\ ytEvents = <<>>
    /\ HomeInit
    /\ TimeInit
    /\ CatalogInit

\* the duration of the video of this editor
SeedDuration == 40

\* what the user types into the cards: a start time, and an end field cleared
SeedEdits ==
    { <<"startTime", <<"0", "0", ":", "0", "0", ":", "1", "0">> >>,
      <<"endTime", <<>> >> }

SeedNext ==
    \/ onReady(SeedDuration)
    \/ \E h \in {"start", "end"} : handleMouseDown(h)
    \/ \E p \in 0..PointerSteps : handleDragMove(p)
    \/ handleDragEnd
    \/ \E id \in 1..2 : selectClipForEditing(id)
    \/ \E id \in 1..2, e \in SeedEdits : editClipTime(id, e[1], e[2])
    \/ \E id \in 1..2 : clickRemove(id)
    \/ toggleVideoPlayer

\* the editor with two clips: selecting, dragging, editing, removing
SeedSpec == SeedInit /\ [][SeedNext]_vars

----------------------------------------------------------------------------
(* The editor with a list that grows to two clips                          *)

MaxListClips == 2

ListNext ==
    \/ ClockTick
    \/ onReady(SeedDuration)
    \/ \E h \in {"start", "end"} : handleMouseDown(h)
    \/ \E p \in 0..PointerSteps : handleDragMove(p)
    \/ handleDragEnd
    \/ \E id \in 1..MaxClock : selectClipForEditing(id)
    \/ \E t \in TitleInputs : handleAddClipFromVideo(t, MaxListClips)
    \/ \E id \in 1..MaxClock : clickRemove(id)

\* the editor from its initial state: adding, selecting, dragging and
\* removing, with up to MaxListClips clips
ListSpec == Init /\ [][ListNext]_vars

----------------------------------------------------------------------------
(* Properties of playback                                                  *)

\* a pause of the player waits for onPause
PausePending == \E i \in 1..Len(ytEvents) : ytEvents[i] = "pause"

\* C13: while playing, a sampling tick that observes a player time >= the
\* endSeconds of the range as it is at that tick pauses the player, also
\* when endSeconds was changed after playback started.
C13_TickPausesAtRangeEnd ==
    [][(/\ lastEvent' = "sampleTick"
        /\ showVideoPlayer
        /\ ytState = "playing"
        /\ JsLe(endTime, ytTime)) => ytState' = "paused"]_vars

\* C14: at most one sampling timer exists at any time, and one exists only
\* while playback is playing (or paused with onPause still to run).
C14_OneTimerOnlyWhilePlaying ==
    /\ Cardinality(timers) <= 1
    /\ (timers # {}) => (ytState = "playing" \/ PausePending)

\* C15: once the editor is unmounted no sampling timer exists, so that no
\* callback of one runs afterwards.
C15_UnmountCancelsTimer ==
    ~showVideoPlayer => (timers = {} /\ lastEvent # "sampleTick")

\* the editor was just unmounted while a sampling timer existed
C15_UnmountedWhileSampling ==
    ~showVideoPlayer /\ lastEvent = "unmountWithTimer"

\* what a user types into the title field: a title after a blank, a blank
AddTitles == { <<" ", "A">>, <<" ">> }

AddNext ==
    \/ ClockTick
    \/ onReady(SeedDuration)
    \/ \E h \in {"start", "end"} : handleMouseDown(h)
    \/ \E p \in 0..PointerSteps : handleDragMove(p)
    \/ handleDragEnd
    \/ \E id \in 1..MaxClock : selectClipForEditing(id)
    \/ \E t \in AddTitles : handleAddClipFromVideo(t, MaxListClips)
    \/ \E id \in 1..MaxClock : clickRemove(id)

\* the editor from its initial state, with titled and untitled adds
AddSpec == Init /\ [][AddNext]_vars

----------------------------------------------------------------------------
(* Properties of seeding and of the writes of a drag                       *)

\* a step of a mounted editor that changes the selected id to a listed clip
SelectsListedClip ==
    /\ showVideoPlayer /\ showVideoPlayer'
    /\ selectedClipId' # selectedClipId
    /\ selectedClipId' \in ClipIdsOf(clips')

\* a step of a mounted editor that changes the range
RangeChanges ==
    /\ showVideoPlayer /\ showVideoPlayer'
    /\ <<startTime', endTime'>> # <<startTime, endTime>>

\* the range changes only by a drag update or with the selected id
OnlyDragOrSelection ==
    RangeChanges =>
        (lastEvent' = "handleDragMove" \/ selectedClipId' # selectedClipId)

StoredOr(text, default) == IF text = <<>> THEN default ELSE text

ChangedClips == {i \in 1..Len(clips) : clips'[i] # clips[i]}

\* the place of the selected clip, as clips.find gives it
SelectedPlace ==
    CHOOSE i \in 1..Len(clips) :
        /\ clips[i].id = selectedClipId
        /\ \A k \in 1..(i - 1) : clips[k].id # selectedClipId

\* C12: a drag update writes only to the clip that is currently selected:
\* it changes the stored startTime, endTime or title of no other clip of
\* the list (of clip A, after A and then B were selected).
C12_DragWritesSelectedClipOnly ==
    [][(lastEvent' = "handleDragMove") =>
          /\ Len(clips') = Len(clips)
          /\ \A i \in ChangedClips :
                selectedClipId \in ClipIdsOf(clips) /\ i = SelectedPlace]_vars

----------------------------------------------------------------------------
(* Properties of the workflows                                             *)

\* a download or a submission whose input is not valid
InvalidSubmission ==
    \/ handleDownloadVideo /\ ~ValidUrl(youtubeUrl)
    \/ handleSubmit /\ (~ValidUrl(youtubeUrl) \/ Len(clips) = 0)
    \/ handleCreateClips /\ Len(clips) = 0

\* C16: a download or a clip submission with an empty URL, a URL that is not
\* structurally valid, or an empty clip list issues no request and leaves the
\* processing state as it was
C16_NoRequestWhenInvalid ==
    [][InvalidSubmission =>
          UNCHANGED <<sent, flows, isDownloading, isProcessing, jobId,
                      jobStatus, videoStatus, error>>]_vars

\* times that are not hh:mm:ss: a letter in the seconds, no text at all, an
\* hour past 23, a minute past 59
MalformedTimes ==
    { <<"0", "0", ":", "0", "0", ":", "3", "x">>,
      <<>>,
      <<"2", "4", ":", "0", "0", ":", "0", "0">>,
      <<"0", "0", ":", "6", "0", ":", "0", "0">> }

HasMalformedTime(cs) ==
    \E i \in 1..Len(cs) :
        cs[i].startTime \in MalformedTimes \/ cs[i].endTime \in MalformedTimes

TimeFormatAlert == "Please enter valid time formats (hh:mm:ss) for all clips"

\* C17: a submission of a clip list in which a start or end time is malformed
\* is rejected with a message: no request is sent, no poll starts, and
\* isProcessing, jobId and jobStatus stay as they were
C17_MalformedTimeRejected ==
    [][((handleCreateClips \/ handleSubmit) /\ HasMalformedTime(clips)) =>
          /\ lastSubmit'.alert # NoAlert
          /\ UNCHANGED <<sent, flows, loops, isProcessing, jobId, jobStatus>>]_vars

\* Create Clips was pressed with a downloaded video and a malformed time, and
\* the time format message was shown
C17_RejectedAtCreateClips ==
    /\ lastSubmit = Alerted("handleCreateClips", TimeFormatAlert)
    /\ downloadedVideo # NoVideo
    /\ HasMalformedTime(clips)
    /\ ~isProcessing

\* C18: when the submit request of a create-clips workflow gets a non-success
\* HTTP response, the message of the failure is put in error, no poll is
\* started, and jobStatus and jobId are what they were before the submit was
\* attempted
C18_FailedSubmitLeavesJobShown ==
    [][\A f \in FlowIds, d \in Details :
          (flows[f].kind = "create" /\ postFails(f, HttpFail(d))) =>
              /\ error' = createClipsError(d)
              /\ loops' = loops
              /\ Shown(jobId', jobStatus') = flows[f].before]_vars

----------------------------------------------------------------------------
(* Messages of failed requests                                             *)

\* the generic message of the status fetch of a loop
GenericStatusMessage(kind) ==
    IF kind = "video" THEN "Failed to get video status"
    ELSE "Failed to get job status"

\* the message the body of a non-2xx response asks for
DetailOr(detail, generic) == IF detail # NoDetail THEN detail ELSE generic

\* C19: a non-2xx response to the status fetch of a polling loop fails the
\* loop with the detail of the response body when there is one, and with the
\* generic message of the operation when there is none
C19_FailureCarriesDetail ==
    [][\A l \in LoopIds, n \in 1..MaxFetch :
          (/\ Deliver(l, n)
           /\ loops[l].promise = "pending"
           /\ loops[l].reqs[n].resp.t = "http") =>
              /\ loops'[l].promise = "rejected"
              /\ loops'[l].value.message =
                    DetailOr(loops[l].reqs[n].resp.detail,
                             GenericStatusMessage(loops[l].kind))]_vars

----------------------------------------------------------------------------
(* Formatting a number of seconds and parsing the text back                *)

\* the last second of 99:59:59
MaxSeconds == 359999

\* formatSecondsToTime is applied to the input
applyFormat ==
    /\ stage = "input"
    /\ timecode' = formatSecondsToTime(inSeconds)
    /\ stage' = "formatted"
    /\ UNCHANGED <<inSeconds, outSeconds>>
    /\ UNCHANGED pollVars
    /\ UNCHANGED editorVars
    /\ UNCHANGED workVars
    /\ UNCHANGED catalogVars

\* parseTimeToSeconds is applied to the text
applyParse ==
    /\ stage = "formatted"
    /\ outSeconds' = parseTimeToSeconds(timecode)
    /\ stage' = "parsed"
    /\ UNCHANGED <<inSeconds, timecode>>
    /\ UNCHANGED pollVars
    /\ UNCHANGED editorVars
    /\ UNCHANGED workVars
    /\ UNCHANGED catalogVars

RoundTripInit ==
    /\ PollInit
    /\ EditorInit
    /\ inSeconds \in 0..MaxSeconds
    /\ timecode = <<>>
    /\ outSeconds = 0
    /\ stage = "input"
    /\ CatalogInit

RoundTripNext == applyFormat \/ applyParse

\* every number of seconds up to MaxSeconds, formatted and parsed back
RoundTripSpec == RoundTripInit /\ [][RoundTripNext]_vars

\* C20: parseTimeToSeconds(formatSecondsToTime(n)) = n for every integer n
\* from 0 to 359999
C20_RoundTrip == (stage = "parsed") => (outSeconds = inSeconds)

\* 359999 was formatted as 99:59:59 and parsed back
C20_LastSecondParsed ==
    /\ stage = "parsed"
    /\ inSeconds = MaxSeconds
    /\ timecode = <<"9", "9", ":", "5", "9", ":", "5", "9">>

----------------------------------------------------------------------------
(* parseTimeToSeconds on texts of any shape                                *)

\* the fields a text is put together from: empty, one digit, two digits,
\* three digits, a letter, a digit and a letter
FieldTexts ==
    { <<>>, <<"5">>, <<"1", "2">>, <<"1", "0", "0">>, <<"x">>, <<"3", "x">> }

\* the most fields a text has
MaxFields == 4

\* fields.join(':')
RECURSIVE Join(_)
Join(fields) ==
    IF Len(fields) = 1 THEN fields[1]
    ELSE fields[1] \o <<":">> \o Join(Tail(fields))

ParseTexts ==
    UNION { {Join(fs) : fs \in [1..k -> FieldTexts]} : k \in 1..MaxFields }

ParseInit ==
    /\ PollInit
    /\ EditorInit
    /\ inSeconds = 0
    /\ timecode \in ParseTexts
    /\ outSeconds = 0
    /\ stage = "formatted"
    /\ CatalogInit

ParseNext == applyParse

\* parseTimeToSeconds applied to every text of ParseTexts
ParseSpec == ParseInit /\ [][ParseNext]_vars

\* one or two digits, a colon, two digits, a colon and two digits
IsTimecodeShape(text) ==
    LET parts == Split(text)
    IN /\ Len(parts) = 3
       /\ Len(parts[1]) \in {1, 2} /\ AllDigits(parts[1])
       /\ Len(parts[2]) = 2 /\ AllDigits(parts[2])
       /\ Len(parts[3]) = 2 /\ AllDigits(parts[3])

\* C21: parseTimeToSeconds returns 0 for every text that is not one or two
\* digits, a colon, two digits, a colon and two digits
C21_OtherShapesGiveZero ==
    (stage = "parsed" /\ ~IsTimecodeShape(timecode)) => (outSeconds = 0)

----------------------------------------------------------------------------
(* Properties of the clip list                                             *)

\* C22: the clips of the list have pairwise distinct ids, whatever adds,
\* updates and removes were made, two adds at one reading of the clock
\* included
C22_ClipIdsDistinct ==
    \A i, j \in 1..Len(clips) : (i # j) => (clips[i].id # clips[j].id)

\* text without the blanks at its ends is stored: nothing when text is blank
IsTrimOf(stored, text) ==
    IF \A i \in 1..Len(text) : text[i] = " "
    THEN stored = NoTitle
    ELSE \E a, b \in 1..Len(text) :
            /\ stored = SubSeq(text, a, b)
            /\ text[a] # " " /\ text[b] # " "
            /\ \A i \in 1..Len(text) : (i < a \/ i > b) => text[i] = " "

\* the step appends one clip made of the range and of title text t
AppendsSnapshot(t) ==
    /\ Len(clips') = Len(clips) + 1
    /\ SubSeq(clips', 1, Len(clips)) = clips
    /\ LET new == clips'[Len(clips')]
       IN /\ new.startTime = formatSecondsToTime(startTime)
          /\ new.endTime = formatSecondsToTime(endTime)
          /\ IsTrimOf(new.title, t)

\* the clips other than the selected one stay as they are
UnselectedClipsKept ==
    /\ Len(clips') = Len(clips)
    /\ \A k \in ChangedClips :
          selectedClipId \in ClipIdsOf(clips) /\ k = SelectedPlace

\* C23: the add action appends exactly one clip at the end of the list, with
\* the timecodes of the current range and the trimmed title (none when the
\* text is blank); the earlier clips keep their values and order, and a later
\* change of the range does not change a clip that is not the selected one
C23_AddAppendsRangeSnapshot ==
    [][/\ \A t \in AddTitles :
            handleAddClipFromVideo(t, MaxListClips) => AppendsSnapshot(t)
       /\ (RangeChanges /\ lastEvent' # "clickRemove") => UnselectedClipsKept]_vars

----------------------------------------------------------------------------
(* updateClip and removeClip called with any id                            *)

ClipFields == {"startTime", "endTime", "title"}

\* onUpdateClip of a clip card: updateClip(id, field, value)
onUpdateClip(id, field, value) ==
    /\ clips' = updateClip(clips, id, field, value)
    /\ lastEvent' = "onUpdateClip"
    /\ UNCHANGED <<selectedClipId, now, showVideoPlayer, player, duration,
                   isDragging, startTime, endTime, currentTime>>
    /\ UNCHANGED playVars
    /\ UNCHANGED workVars
    /\ UNCHANGED timeVars
    /\ UNCHANGED catalogVars
    /\ UNCHANGED pollVars

\* removeClip(id)
onRemoveClip(id) ==
    /\ clips' = IF Len(clips) > 0 THEN removeClip(clips, id) ELSE clips
    /\ lastEvent' = "onRemoveClip"
    /\ UNCHANGED <<selectedClipId, now, showVideoPlayer, player, duration,
                   isDragging, startTime, endTime, currentTime>>
    /\ UNCHANGED playVars
    /\ UNCHANGED workVars
    /\ UNCHANGED timeVars
    /\ UNCHANGED catalogVars
    /\ UNCHANGED pollVars

ClipOpsNext ==
    \/ ClockTick
    \/ \E t \in TitleInputs : handleAddClipFromVideo(t, MaxListClips)
    \/ \E id \in 1..MaxClock, f \in ClipFields, v \in EditTexts :
          onUpdateClip(id, f, v)
    \/ \E id \in 1..MaxClock : onRemoveClip(id)

\* the operations of the clip list, called with ids in the list and not in it
ClipOpsSpec == Init /\ [][ClipOpsNext]_vars

\* the place of the clip with that id, as clips.find gives it
PlaceOf(id) ==
    CHOOSE i \in 1..Len(clips) :
        clips[i].id = id /\ \A k \in 1..(i - 1) : clips[k].id # id

\* the step sets the named field of the clip with that id and nothing else
UpdatesOnly(id, field, value) ==
    IF id \notin ClipIdsOf(clips) THEN clips' = clips
    ELSE /\ Len(clips') = Len(clips)
         /\ \A k \in 1..Len(clips) :
               /\ clips'[k].id = clips[k].id
               /\ (k # PlaceOf(id)) => (clips'[k] = clips[k])
               /\ (k = PlaceOf(id)) =>
                     /\ clips'[k][field] = value
                     /\ \A g \in ClipFields \ {field} :
                           clips'[k][g] = clips[k][g]

\* the step takes the clip with that id out and nothing else
RemovesOnly(id) ==
    IF id \notin ClipIdsOf(clips) THEN clips' = clips
    ELSE clips' = SubSeq(clips, 1, PlaceOf(id) - 1)
                    \o SubSeq(clips, PlaceOf(id) + 1, Len(clips))

\* C24: updateClip(id, field, value) changes only the named field of the clip
\* with that id, removeClip(id) removes only the clip with that id; every
\* other clip keeps its id, fields and place in the order, no id changes, and
\* with an id that is not in the list both leave the list as it is
C24_UpdateRemoveById ==
    [][/\ \A id \in 1..MaxClock, f \in ClipFields, v \in EditTexts :
            onUpdateClip(id, f, v) => UpdatesOnly(id, f, v)
       /\ \A id \in 1..MaxClock : onRemoveClip(id) => RemovesOnly(id)]_vars

----------------------------------------------------------------------------
(* The quality functions on format lists                                   *)

\* preference orders the best quality is asked for
Orders ==
    { DefaultOrder, <<"4K", "720p", "1080p", "1440p">>, <<"1440p">>, <<>> }

\* QualitySelector renders: isAvailable of each quality button
renderSelector ==
    /\ UNCHANGED found
    /\ available' = [q \in Qualities |->
                        IF isQualityAvailable(q, availableFormats)
                        THEN "yes" ELSE "no"]
    /\ catalogEvent' = "renderSelector"
    /\ UNCHANGED <<availableFormats, selectedQuality, best, debounceTimers,
                   unchangedFor, discoveries>>
    /\ UNCHANGED pollVars
    /\ UNCHANGED editorVars
    /\ UNCHANGED workVars
    /\ UNCHANGED timeVars

\* getBestAvailableQuality(availableFormats, order) is called
callBestQuality(order) ==
    /\ UNCHANGED found
    /\ best' = [order |-> order,
                quality |-> getBestAvailableQuality(availableFormats, order)]
    /\ catalogEvent' = "callBestQuality"
    /\ UNCHANGED <<availableFormats, selectedQuality, available,
                   debounceTimers, unchangedFor, discoveries>>
    /\ UNCHANGED pollVars
    /\ UNCHANGED editorVars
    /\ UNCHANGED workVars
    /\ UNCHANGED timeVars

QualityInit ==
    /\ PollInit
    /\ EditorInit
    /\ TimeInit
    /\ availableFormats \in FormatLists
    /\ selectedQuality = "1080p"
    /\ available = NotRendered
    /\ best = NotComputed
    /\ debounceTimers = {}
    /\ unchangedFor = 0
    /\ discoveries = {}
    /\ catalogEvent = "none"
    /\ found = NotFound

QualityNext ==
    \/ renderSelector
    \/ \E o \in Orders : callBestQuality(o)

\* the quality functions applied to every format list of FormatLists
QualitySpec == QualityInit /\ [][QualityNext]_vars

\* the resolution tokens of a quality level, in lower case
TokensOf(q) ==
    CASE q = "720p" -> { <<"7", "2", "0">> }
      [] q = "1080p" -> { <<"1", "0", "8", "0">> }
      [] q = "1440p" -> { <<"1", "4", "4", "0">> }
      [] q = "4K" -> { <<"2", "1", "6", "0">>, <<"4", "k">> }

\* some format of the list has a resolution label that contains a token of q
Offers(formats, q) ==
    \E i \in 1..Len(formats), token \in TokensOf(q) :
        /\ formats[i].resolution # NoResolution
        /\ includes(toLowerCase(formats[i].resolution), token)

\* C25: isQualityAvailable(q, formats) is true iff some format's resolution
\* label contains q's token, compared without regard to case: 720 for 720p,
\* 1080 for 1080p, 1440 for 1440p, 2160 or 4k for 4K; a format without a
\* resolution label never matches
C25_AvailableIffTokenInLabel ==
    (available # NotRendered) =>
        \A q \in Qualities :
            (available[q] = "yes") <=> Offers(availableFormats, q)

\* the selector was rendered for a list whose only labelled format is 4K
C25_UpperCaseLabelMatches4K ==
    /\ catalogEvent = "renderSelector"
    /\ availableFormats = <<[resolution |-> <<"4", "K">>],
                            [resolution |-> NoResolution]>>
    /\ available["4K"] = "yes"
    /\ available["1080p"] = "no"

\* the places of the order whose quality the list offers
OfferedPlaces(formats, order) ==
    {i \in 1..Len(order) : Offers(formats, order[i])}

\* the list offers 720p and 4K and neither 1080p nor 1440p
OnlyOffers720And4K(formats) ==
    \A q \in Qualities : Offers(formats, q) <=> (q \in {"720p", "4K"})

\* C26: getBestAvailableQuality(formats, order) returns the first quality of
\* the order that is available, and null iff no quality of the order is
\* available; with the default order and formats that offer only 720p and 4K
\* it returns 720p
C26_BestIsFirstAvailable ==
    (best # NotComputed) =>
        LET places == OfferedPlaces(availableFormats, best.order)
        IN /\ (best.quality = NoQuality) <=> (places = {})
           /\ (places # {}) =>
                 \E i \in places :
                    /\ best.quality = best.order[i]
                    /\ \A k \in places : i <= k
           /\ (best.order = DefaultOrder /\ OnlyOffers720And4K(availableFormats))
                 => (best.quality = "720p")

\* the best quality under the default order was asked for formats that offer
\* only 720p and 4K
C26_Best720Over4K ==
    /\ catalogEvent = "callBestQuality"
    /\ best.order = DefaultOrder
    /\ OnlyOffers720And4K(availableFormats)
    /\ Len(availableFormats) = 2
    /\ best.quality = "720p"

----------------------------------------------------------------------------
(* The format catalog: debounced discovery and the selected quality        *)

OtherVideoUrl == "https://youtu.be/xyz"

\* texts of the source URL field of the catalog
CatalogUrls == {"not a url", VideoUrl, OtherVideoUrl}

\* the structural validity pattern of a source URL
isValidYouTubeUrl(url) == url \in {VideoUrl, OtherVideoUrl}

\* the debounce delay of 1000 ms, in steps of the clock
DebounceTicks == 2

\* a variant of the cancellation that leaves the pending timers alone
keepPending(ts) == ts

\* a change of the URL cancels the pending debounce timers
cancelPending(ts) == {}

\* the format lists a discovery returns: none, 720p only, 1080p and 2160p,
\* 480p only
DiscoveredLists ==
    { <<>>,
      <<[resolution |-> <<"1", "2", "8", "0", "x", "7", "2", "0">>]>>,
      <<[resolution |-> <<"1", "9", "2", "0", "x", "1", "0", "8", "0">>],
        [resolution |-> <<"3", "8", "4", "0", "x", "2", "1", "6", "0">>]>>,
      <<[resolution |-> <<"4", "8", "0", "p">>]>> }

\* the source URL changes: the pending timer is cancelled and a new one set
changeSourceUrl(u) ==
    /\ UNCHANGED found
    /\ u # youtubeUrl
    /\ youtubeUrl' = u
    /\ debounceTimers' = cancelPending(debounceTimers)
                            \cup {[url |-> u, left |-> DebounceTicks]}
    /\ unchangedFor' = 0
    /\ catalogEvent' = IF debounceTimers # {} THEN "cancelled"
                       ELSE "changeSourceUrl"
    /\ UNCHANGED <<availableFormats, selectedQuality, available, best,
                   discoveries>>
    /\ UNCHANGED <<downloadedVideo, isDownloading, isProcessing, jobId,
                   jobStatus, videoStatus, error, flows, sent, lastSubmit>>
    /\ UNCHANGED pollVars
    /\ UNCHANGED editorVars
    /\ UNCHANGED timeVars

\* one step of the clock passes; a timer that is due fires first
catalogTick ==
    /\ UNCHANGED found
    /\ \A t \in debounceTimers : t.left > 0
    /\ debounceTimers # {} \/ unchangedFor < DebounceTicks
    /\ debounceTimers' = {[t EXCEPT !.left = @ - 1] : t \in debounceTimers}
    /\ unchangedFor' = IF unchangedFor < DebounceTicks
                       THEN unchangedFor + 1 ELSE unchangedFor
    /\ catalogEvent' = "catalogTick"
    /\ UNCHANGED <<availableFormats, selectedQuality, available, best,
                   discoveries>>
    /\ UNCHANGED pollVars
    /\ UNCHANGED editorVars
    /\ UNCHANGED workVars
    /\ UNCHANGED timeVars

\* debounce timer t fires: one discovery request if its URL is valid
debounceFire(t) ==
    /\ UNCHANGED found
    /\ t \in debounceTimers
    /\ t.left = 0
    /\ debounceTimers' = debounceTimers \ {t}
    /\ IF isValidYouTubeUrl(t.url)
       THEN /\ discoveries' = discoveries \cup {t.url}
            /\ catalogEvent' = "discoveryRequest"
       ELSE /\ UNCHANGED discoveries
            /\ catalogEvent' = "debounceFire"
    /\ UNCHANGED <<availableFormats, selectedQuality, available, best,
                   unchangedFor>>
    /\ UNCHANGED pollVars
    /\ UNCHANGED editorVars
    /\ UNCHANGED workVars
    /\ UNCHANGED timeVars

\* the selection after a discovery: the best available quality when the list
\* is not empty and does not offer the selected one
reassigned(selected, formats) ==
    IF /\ Len(formats) > 0
       /\ ~isQualityAvailable(selected, formats)
       /\ getBestAvailableQuality(formats, DefaultOrder) # NoQuality
    THEN getBestAvailableQuality(formats, DefaultOrder)
    ELSE selected

\* the discovery request for u returns: its list replaces the loaded one
discoveryReturns(u, formats) ==
    /\ UNCHANGED found
    /\ u \in discoveries
    /\ discoveries' = discoveries \ {u}
    /\ availableFormats' = formats
    /\ selectedQuality' = reassigned(selectedQuality, formats)
    /\ catalogEvent' = IF selectedQuality' # selectedQuality THEN "reassigned"
                       ELSE "discoveryReturns"
    /\ UNCHANGED <<available, best, debounceTimers, unchangedFor>>
    /\ UNCHANGED pollVars
    /\ UNCHANGED editorVars
    /\ UNCHANGED workVars
    /\ UNCHANGED timeVars

\* a discovery request is under way
isLoadingFormats == discoveries # {}

\* a variant of isDisabled that does not look at the formats
isDisabledByUrl(quality) ==
    \/ TrimUrl(youtubeUrl) = ""
    \/ ~isValidYouTubeUrl(TrimUrl(youtubeUrl))
    \/ isDownloading
    \/ isLoadingFormats

\* isDisabled of a button of QualitySelector
isDisabled(quality) ==
    \/ TrimUrl(youtubeUrl) = ""
    \/ ~isValidYouTubeUrl(TrimUrl(youtubeUrl))
    \/ isDownloading
    \/ isLoadingFormats
    \/ Len(availableFormats) > 0 /\ ~isQualityAvailable(quality, availableFormats)

\* a click on a button of QualitySelector: !isDisabled && onQualityChange
onQualityChange(quality) ==
    /\ UNCHANGED found
    /\ ~isDisabled(quality)
    /\ selectedQuality' = quality
    /\ catalogEvent' = "onQualityChange"
    /\ UNCHANGED <<availableFormats, available, best, debounceTimers,
                   unchangedFor, discoveries>>
    /\ UNCHANGED pollVars
    /\ UNCHANGED editorVars
    /\ UNCHANGED workVars
    /\ UNCHANGED timeVars

CatalogNext ==
    \/ \E u \in CatalogUrls : changeSourceUrl(u)
    \/ catalogTick
    \/ \E t \in debounceTimers : debounceFire(t)
    \/ \E u \in CatalogUrls, fs \in DiscoveredLists : discoveryReturns(u, fs)
    \/ \E q \in Qualities : onQualityChange(q)

\* the format catalog: URL changes, the debounce timer, discoveries and the
\* quality selector
CatalogSpec == Init /\ [][CatalogNext]_vars

\* the list offers one of the quality levels
OffersSome(formats) == \E q \in Qualities : Offers(formats, q)

\* the selector changes the selection, with a list loaded, only to a quality
\* the list offers
SelectorKeepsToList ==
    \A q \in Qualities :
        (onQualityChange(q) /\ Len(availableFormats) > 0) =>
            Offers(availableFormats, selectedQuality')

C28_RequestOnlyForSettledUrl ==
    [][/\ \A t \in debounceTimers :
            (debounceFire(t) /\ catalogEvent' = "discoveryRequest") =>
                /\ t.url = youtubeUrl
                /\ unchangedFor >= DebounceTicks
                /\ isValidYouTubeUrl(t.url)
       /\ \A u \in CatalogUrls :
            changeSourceUrl(u) =>
                \A t \in debounceTimers' :
                    t.url = u /\ t.left = DebounceTicks]_vars

\* the URL was changed while the timer of the previous URL was pending: that
\* timer is gone and no request was issued
C28_PendingTimerCancelled ==
    /\ catalogEvent = "cancelled"
    /\ youtubeUrl = OtherVideoUrl
    /\ debounceTimers = {[url |-> OtherVideoUrl, left |-> DebounceTicks]}
    /\ discoveries = {}
    /\ availableFormats = <<>>

\* ---------------------------------------------------------------------
\* Clicks on the track and the two ends of a drag

\* variant of handleProgressBarClick that also seeks while a handle is
\* dragged
clickDuringDrag(p) ==
    /\ showVideoPlayer
    /\ IF player
       THEN LET seekTime == (p * duration) \div PointerSteps
            IN /\ ytTime' = YtSeek(seekTime)
               /\ ytEvents' \in SeekEvents
               /\ currentTime' = seekTime
       ELSE UNCHANGED <<ytTime, ytEvents, currentTime>>
    /\ lastEvent' = "handleProgressBarClick"
    /\ UNCHANGED <<clips, selectedClipId, now, showVideoPlayer, player,
                   duration, isDragging, startTime, endTime>>
    /\ UNCHANGED <<isPlaying, intervalRef, timers, ytState>>
    /\ UNCHANGED workVars
    /\ UNCHANGED timeVars
    /\ UNCHANGED catalogVars
    /\ UNCHANGED pollVars

\* handleProgressBarClick, the click at p / PointerSteps of the track: it
\* returns at once without a player or while a handle is dragged
handleProgressBarClick(p) ==
    /\ showVideoPlayer
    /\ IF player /\ isDragging = "none"
       THEN LET seekTime == (p * duration) \div PointerSteps
            IN /\ ytTime' = YtSeek(seekTime)
               /\ ytEvents' \in SeekEvents
               /\ currentTime' = seekTime
       ELSE UNCHANGED <<ytTime, ytEvents, currentTime>>
    /\ lastEvent' = "handleProgressBarClick"
    /\ UNCHANGED <<clips, selectedClipId, now, showVideoPlayer, player,
                   duration, isDragging, startTime, endTime>>
    /\ UNCHANGED <<isPlaying, intervalRef, timers, ytState>>
    /\ UNCHANGED workVars
    /\ UNCHANGED timeVars
    /\ UNCHANGED catalogVars
    /\ UNCHANGED pollVars

ScrubNext ==
    \/ \E d \in Durations : onReady(d)
    \/ togglePlayPause
    \/ onPlay
    \/ onPause
    \/ \E t \in timers : sampleTick(t)
    \/ ytAdvance
    \/ \E h \in {"start", "end"} : handleMouseDown(h)
    \/ \E p \in 0..PointerSteps : handleDragMove(p)
    \/ handleDragEnd
    \/ \E p \in 0..PointerSteps : handleProgressBarClick(p)
    \/ toggleVideoPlayer

\* the scrubber of the editor: playback, drags of the handles and clicks on
\* the track
ScrubSpec == Init /\ [][ScrubNext]_vars

\* the time at the fraction p / PointerSteps of the track
TrackTime(p) == (p * duration) \div PointerSteps

\* what a step shows of the player and of the range
PlayerCommands == <<ytTime, ytState, ytEvents>>
RangeAndClips == <<startTime, endTime, clips, selectedClipId>>

\* C29: a click on the track while no handle is dragged seeks the player to
\* the clicked fraction of the duration and sets the displayed time to it,
\* and leaves the start, the end and the dragged handle as they are; a click
\* during a drag or before the player exists changes nothing of them
C29_TrackClickSeeksOnly ==
    [][\A p \in 0..PointerSteps :
          handleProgressBarClick(p) =>
              IF player /\ isDragging = "none"
              THEN /\ currentTime' = TrackTime(p)
                   /\ ytTime' = TrackTime(p)
                   /\ ytState' = ytState
                   /\ UNCHANGED RangeAndClips
                   /\ UNCHANGED isDragging
              ELSE /\ UNCHANGED PlayerCommands
                   /\ UNCHANGED RangeAndClips
                   /\ UNCHANGED <<currentTime, isDragging>>]_vars

\* the track was clicked in its middle while the player was playing and no
\* handle was dragged: player and displayed time are at half the duration,
\* and the range is still the default one
C29_ClickedMiddleOfTrack ==
    /\ lastEvent = "handleProgressBarClick"
    /\ player
    /\ isDragging = "none"
    /\ ytState = "playing"
    /\ duration = 40
    /\ currentTime = 20
    /\ ytTime = 20
    /\ startTime = 0
    /\ endTime = DefaultEndSeconds

\* C30: a mouse down on a handle and the mouse up that ends a drag change
\* only the dragged handle: the start, the end, the displayed time and the
\* clips stay as they are and the player gets no seek, play or pause
C30_DragEndsChangeOnlyTarget ==
    [][((\E h \in {"start", "end"} : handleMouseDown(h)) \/ handleDragEnd) =>
          /\ UNCHANGED PlayerCommands
          /\ UNCHANGED RangeAndClips
          /\ UNCHANGED currentTime
          /\ isDragging' # isDragging]_vars

\* a drag has ended while the player was playing past the start of the
\* range: the player is where playback left it, not back at the start
C30_DragEndedWhilePlaying ==
    /\ lastEvent = "handleDragEnd"
    /\ isDragging = "none"
    /\ ytState = "playing"
    /\ duration = 40
    /\ startTime = 0
    /\ ytTime = 20

\* ---------------------------------------------------------------------
\* Drag updates of the two handles

\* C31: a drag update of the start handle leaves the player and the
\* displayed time at the new start and the end as it was; a drag update of
\* the end handle leaves the start, the displayed time and the player as
\* they were
C31_DragUpdateFrame ==
    [][\A p \in 0..PointerSteps :
          handleDragMove(p) =>
              IF isDragging = "start"
              THEN /\ ytTime' = startTime'
                   /\ currentTime' = startTime'
                   /\ UNCHANGED <<endTime, isDragging, ytState>>
              ELSE /\ UNCHANGED <<startTime, currentTime, isDragging>>
                   /\ UNCHANGED PlayerCommands]_vars

\* C32: while a listed clip is selected, every drag update stores both
\* timecodes of the updated range in that clip: its stored startTime is the
\* timecode of the new start and its stored endTime that of the new end
C32_DragStoresBothTimecodes ==
    [][(lastEvent' = "handleDragMove" /\ selectedClipId \in ClipIdsOf(clips)) =>
          /\ Len(clips') = Len(clips)
          /\ clips'[SelectedPlace].startTime = formatSecondsToTime(startTime')
          /\ clips'[SelectedPlace].endTime = formatSecondsToTime(endTime')]_vars

\* ---------------------------------------------------------------------
\* The selected clip

\* C33: in every state the selected clip id is none or the id of a clip of
\* the list
C33_SelectedClipIsListed ==
    selectedClipId = NoClip \/ selectedClipId \in ClipIdsOf(clips)

\* ---------------------------------------------------------------------
\* The two workflows of Home together

\* the service has reported the download of video v as completed
DownloadCompleted(v) ==
    /\ v \in JobIds
    /\ server[<<"video", v>>].status = "completed"
    /\ \E d \in sent : d.op = "downloadVideo"

MaxOverlap == 2

\* Home as constructed, with room for MaxOverlap calls
OverlapInit ==
    /\ PollInit
    /\ clips = <<>>
    /\ selectedClipId = NoClip
    /\ now = 1
    /\ showVideoPlayer = TRUE
    /\ player = FALSE
    /\ duration = 0
    /\ isDragging = "none"
    /\ startTime = 0
    /\ endTime = DefaultEndSeconds
    /\ currentTime = 0
    /\ lastEvent = "mount"
    /\ isPlaying = FALSE
    /\ intervalRef = NoTimer
    /\ timers = {}
    /\ ytState = "unstarted"
    /\ ytTime = 0
    /\ ytEvents = <<>>
    /\ youtubeUrl = ""
    /\ downloadedVideo = NoVideo
    /\ isDownloading = FALSE
    /\ isProcessing = FALSE
    /\ jobId = NoJob
    /\ jobStatus = NoStatus
    /\ videoStatus = NoStatus
    /\ error = NoMessage
    /\ flows = [f \in 1..MaxOverlap |-> NoFlow]
    /\ sent = {}
    /\ lastSubmit = Alerted("none", NoAlert)
    /\ TimeInit
    /\ CatalogInit

\* the clip list of the overlapping workflows: empty or one valid clip
OverlapClips == {cs \in WorkClips : ~invalidClips(cs)}

OverlapNext ==
    \/ setYoutubeUrl(VideoUrl)
    \/ \E cs \in OverlapClips : setClips(cs)
    \/ handleDownloadVideo
    \/ handleCreateClips
    \/ handleSubmit
    \/ \E f \in FlowIds, id \in JobIds : postSucceeds(f, id)
    \/ \E f \in FlowIds, r \in {NetFail} \cup {HttpFail(d) : d \in Details} :
          postFails(f, r)
    \/ \E l \in LoopIds : TimeoutFire(l)
    \/ \E l \in LoopIds, n \in 1..MaxFetch : ServerRespond(l, n)
    \/ \E l \in LoopIds, n \in 1..MaxFetch : ServerFail(l, n)
    \/ \E l \in LoopIds, n \in 1..MaxFetch : flowDeliver(l, n)

\* the workflows of Home when a second handler is called while the first
\* one awaits
OverlapSpec == OverlapInit /\ [][OverlapNext]_vars

\* a call of the handler of the given kinds is under way
Active(kinds) == \E f \in FlowIds : flows[f].kind \in kinds

\* C35: isDownloading is true while a call of handleDownloadVideo that
\* passed validation awaits its submit or its poll, isProcessing is true
\* while such a call of handleCreateClips does, and each flag is false when
\* no call that sets it is under way
C35_BusyWhileWorkflowActive ==
    /\ Active({"download"}) => isDownloading
    /\ Active({"create"}) => isProcessing
    /\ ~Active({"download"}) => ~isDownloading
    /\ ~Active({"create", "submit"}) => ~isProcessing

\* the calls that run a create-clips workflow
ClipCalls == {f \in FlowIds : flows[f].kind \in {"create", "submit"}}

\* C36: at most one create-clips workflow is under way at a time, no new
\* one starts while isProcessing is true, and a snapshot is shown only
\* together with the id of a job
C36_OneClipWorkflow ==
    /\ Cardinality(ClipCalls) <= 1
    /\ jobStatus # NoStatus => jobId # NoJob

\* ---------------------------------------------------------------------
\* The polling loops under fair scheduling

\* a status outside the phase enumeration
OtherStatus ==
    [status |-> "queued", completed_clips |-> 0, error |-> NoError]

\* the service answers fetch n of loop l with a status the client does not
\* know
ServerRespondsOther(l, n) ==
    /\ loops[l].kind # "none"
    /\ n \in 1..Len(loops[l].reqs)
    /\ loops[l].reqs[n].resp = NoResp
    /\ ~Terminal(server[<<Endpoint(loops[l].kind), loops[l].job>>])
    /\ loops' = [loops EXCEPT ![l].reqs[n].resp = OkResp(OtherStatus)]
    /\ UNCHANGED server
    /\ UNCHANGED editorVars
    /\ UNCHANGED workVars
    /\ UNCHANGED timeVars
    /\ UNCHANGED catalogVars

LiveNext ==
    \/ \E l \in LoopIds, j \in JobIds : pollJobStatus(l, j)
    \/ \E l \in LoopIds, j \in JobIds : pollVideoStatus(l, j)
    \/ \E l \in LoopIds, j \in JobIds : pollUnifiedJobStatus(l, j)
    \/ \E l \in LoopIds : TimeoutFire(l)
    \/ \E l \in LoopIds : IntervalTick(l)
    \/ \E l \in LoopIds, n \in 1..MaxFetch : ServerRespond(l, n)
    \/ \E l \in LoopIds, n \in 1..MaxFetch : ServerRespondsOther(l, n)
    \/ \E l \in LoopIds, n \in 1..MaxFetch : ServerFail(l, n)
    \/ \E l \in LoopIds, n \in 1..MaxFetch : Deliver(l, n)

\* timers fire, every fetch is answered or fails, and the code awaiting an
\* answer resumes
LiveFairness ==
    \A l \in LoopIds :
        /\ WF_vars(TimeoutFire(l))
        /\ WF_vars(IntervalTick(l))
        /\ \A n \in 1..MaxFetch :
              /\ WF_vars(ServerRespond(l, n) \/ ServerRespondsOther(l, n)
                            \/ ServerFail(l, n))
              /\ WF_vars(Deliver(l, n))

LiveSpec == Init /\ [][LiveNext]_vars /\ LiveFairness

\* a fetch of loop l has failed or has returned a terminal status
TerminalReturned(l) ==
    \E n \in 1..Len(loops[l].reqs) :
        LET resp == loops[l].reqs[n].resp
        IN \/ resp.t \in {"http", "net"}
           \/ resp.t = "ok" /\ resp.body.status \in {"completed", "error"}

\* loop l has settled and has no timer left
Stopped(l) == loops[l].promise # "pending" /\ ~loops[l].timer

\* loop l goes on: a timer is set or the answer of a fetch is awaited
Polling(l) ==
    \/ loops[l].timer
    \/ \E n \in 1..Len(loops[l].reqs) : ~loops[l].reqs[n].done

\* C37: a loop one of whose fetches failed or returned completed or error
\* eventually settles with no timer left, and a settled loop issues no
\* further fetch; a loop that has not settled, whatever other statuses it
\* was given, has a timer set or awaits a fetch
C37_LoopsSettleAndStop ==
    /\ \A l \in LoopIds : TerminalReturned(l) ~> Stopped(l)
    /\ [][\A l \in LoopIds :
            loops[l].promise # "pending" =>
                Len(loops'[l].reqs) = Len(loops[l].reqs)]_vars
    /\ [](\A l \in LoopIds :
            (loops[l].kind # "none" /\ loops[l].promise = "pending") =>
                Polling(l))

\* a chained loop was given a status outside the enumeration, polled again
\* and was then rejected by a failed fetch
C37_SettledAfterOtherStatus ==
    \E l \in LoopIds :
        /\ loops[l].kind = "job"
        /\ Len(loops[l].reqs) = 2
        /\ loops[l].reqs[1].resp = OkResp(OtherStatus)
        /\ loops[l].reqs[2].resp.t = "net"
        /\ loops[l].promise = "rejected"
        /\ ~loops[l].timer

\* ---------------------------------------------------------------------
\* The play button

RangePlayNext ==
    \/ \E d \in Durations : onReady(d)
    \/ \E t \in TitleInputs : handleAddClipFromVideo(t, MaxClips)
    \/ \E id \in 1..MaxClock, f \in {"startTime", "endTime"}, v \in EditTexts :
          editClipTime(id, f, v)
    \/ \E id \in 1..MaxClock : selectClipForEditing(id)
    \/ togglePlayPause
    \/ onPlay
    \/ onPause
    \/ \E t \in timers : sampleTick(t)
    \/ ytAdvance

\* the play button in an editor whose range is seeded from the clips
RangePlaySpec == Init /\ [][RangePlayNext]_vars

\* the position t is inside the selected range
InsideRange(t) == JsLe(startTime, t) /\ JsLt(t, endTime)

\* C38: when play is requested through the play button, the player is
\* sought to the start of the range if its position is not inside the range
\* and stays where it is otherwise, and playback starts at a position inside
\* the range (a player at the end of the video starts over at 0)
C38_PlayStartsInsideRange ==
    [][(togglePlayPause /\ ~isPlaying) =>
          LET from == IF InsideRange(ytTime) THEN ytTime ELSE startTime
          IN /\ ytState' = "playing"
             /\ from # duration => ytTime' = from
             /\ InsideRange(ytTime')]_vars

\* ---------------------------------------------------------------------
\* The three quality helpers together

\* findFormatForQuality(quality, availableFormats) is called
callFindFormat(quality) ==
    /\ found' = [quality |-> quality,
                 format |-> findFormatForQuality(quality, availableFormats)]
    /\ catalogEvent' = "callFindFormat"
    /\ UNCHANGED <<availableFormats, selectedQuality, available, best,
                   debounceTimers, unchangedFor, discoveries>>
    /\ UNCHANGED pollVars
    /\ UNCHANGED editorVars
    /\ UNCHANGED workVars
    /\ UNCHANGED timeVars

HelpersNext ==
    \/ \E o \in Orders : callBestQuality(o)
    \/ \E q \in Qualities : callFindFormat(q)

\* the three quality functions applied to every format list of FormatLists
HelpersSpec == QualityInit /\ [][HelpersNext]_vars

\* the places of the formats whose label contains a token of q
PlacesOffering(formats, q) ==
    {i \in 1..Len(formats) : Offers(<<formats[i]>>, q)}

\* C39: findFormatForQuality returns a format iff isQualityAvailable is
\* true for the same quality and list, the format it returns is the first
\* of the list that matches the quality, and a quality returned by
\* getBestAvailableQuality is available in the list
C39_HelpersAgree ==
    /\ found.quality # "unknown" =>
          /\ (found.format # NoFormat)
                <=> isQualityAvailable(found.quality, availableFormats)
          /\ found.format # NoFormat =>
                LET places == PlacesOffering(availableFormats, found.quality)
                IN /\ places # {}
                   /\ found.format =
                         availableFormats[CHOOSE i \in places :
                                             \A k \in places : i <= k]
    /\ best.quality \notin {"unknown", NoQuality} =>
          isQualityAvailable(best.quality, availableFormats)

\* of two formats that both match 4K, "3840x2160" and "4K", the first one
\* was returned, and 4K is the best quality of the list
C39_FirstOfTwo4KFormats ==
    /\ availableFormats =
          << [resolution |-> <<"3", "8", "4", "0", "x", "2", "1", "6", "0">>],
             [resolution |-> <<"4", "K">>] >>
    /\ found.quality = "4K"
    /\ found.format = availableFormats[1]
    /\ best.quality = "4K"

============================================================================
